---- MODULE Spec2Model ----
(***************************************************************************)
(* State-machine model of the task manager REST API: the credential store  *)
(* (users), the token service (jsonwebtoken sign / verify), the auth       *)
(* middleware and the task, category and comment routes with their         *)
(* ownership lookups.  One action per route.  Handlers run one at a time;   *)
(* each leaves its response in `last` until Deliver hands it to the client.*)
(***************************************************************************)
EXTENDS Integers, Sequences, FiniteSets, TLC

(***************************************************************************)
(* Bounds                                                                  *)
(***************************************************************************)
\* documents (users, tasks, categories, comments) ever created; ObjectIds
\* are unique across collections, so a single counter hands them out
MaxIds == 4
\* identities ever created
MaxUsers == 2
\* the clock stops advancing here
MaxTime == 1
\* handlers suspended between their lookup and their write at one time
MaxInflight == 2

(***************************************************************************)
(* Program constants                                                       *)
(***************************************************************************)
\* jwt.sign(..., { expiresIn: '7d' }): the lifetime of a token, in clock ticks
TokenTTL == 1
\* body('password').isLength({ min: 6 })
MinPasswordLength == 6

(***************************************************************************)
(* Values                                                                  *)
(***************************************************************************)
\* a route parameter that is not a well-formed ObjectId ('invalidid')
BadId == 0
\* no identity resolved
NoUser == 0
\* the operator object { "$ne": null } in a body field that is to hold an id
NotNull == -1

\* strings that get trimmed are sequences of characters
Texts == { <<>>, <<" ">>, <<" ", "a">>, <<"b">> }
\* display names
NameInputs == { <<" ">>, <<" ", "a">>, <<"a">> }

Emails == { "a@x.io", "A@x.io", "b@x.io", "not-an-email" }
Passwords == { "password123", "short" }

\* an optional body field is the empty set when the key is absent
Opt(S) == { {} } \cup { {v} : v \in S }
Has(f) == f # {}
Val(f) == CHOOSE v \in f : TRUE

Absent == "<absent>"

\* a free slot of inflight
NoRequest == [op |-> "none"]

(***************************************************************************)
(* Pure helpers                                                            *)
(***************************************************************************)
RECURSIVE TrimLeft(_)
TrimLeft(s) == IF s # <<>> /\ Head(s) = " " THEN TrimLeft(Tail(s)) ELSE s

RECURSIVE TrimRight(_)
TrimRight(s) ==
  IF s # <<>> /\ s[Len(s)] = " " THEN TrimRight(SubSeq(s, 1, Len(s) - 1)) ELSE s

\* express-validator .trim() / mongoose trim: true
Trim(s) == TrimRight(TrimLeft(s))

\* express-validator .notEmpty()
NotEmpty(s) == s # <<>>

\* express-validator .isEmail()
IsEmail(e) == e # "not-an-email"

\* the User schema stores and compares emails lower-cased
Lower(e) == IF e = "A@x.io" THEN "a@x.io" ELSE e

PasswordLength(p) == IF p = "short" THEN 5 ELSE 11

\* the User schema's pre-save hook stores a hash, never the plaintext
Hash(p) == << "bcrypt", p >>

\* user.comparePassword(candidate)
ComparePassword(stored, candidate) == stored = Hash(candidate)

(***************************************************************************)
(* State                                                                   *)
(***************************************************************************)
VARIABLES
  users,       \* User collection:     id -> [email, name, password, githubId]
  tasks,       \* Task collection:     id -> [user, title, priority, status]
  categories,  \* Category collection: id -> [user, name]
  comments,    \* Comment collection:  id -> [user, task, content]
  kindOf,      \* the collection every ObjectId handed out so far was made for
  now,         \* the clock jwt.verify reads
  last,        \* the request being answered and its response, or Idle:
               \* [op, hdr, uid, id, res], uid the identity auth attached
  inflight     \* handlers suspended between their lookup and their write:
               \* slot -> what the handler holds, or NoRequest

store == << users, tasks, categories, comments, kindOf >>
vars == << users, tasks, categories, comments, kindOf, now, last, inflight >>

\* the next ObjectId
NextId == Len(kindOf) + 1
CanCreate == Len(kindOf) < MaxIds

\* what clients send as an id: BadId, every ObjectId handed out so far, and
\* NextId for the well-formed ids that name no document
IdParams == BadId..NextId

\* ids of every user that ever existed
EverUsers == { i \in 1..Len(kindOf) : kindOf[i] = "user" }

(***************************************************************************)
(* Responses                                                               *)
(***************************************************************************)
Res(status, error, details, data) ==
  [status |-> status, error |-> error, details |-> details, data |-> data]

Ok(status, data) == Res(status, Absent, Absent, data)
Err(status, error, details) == Res(status, error, details, {})

ValidationError == Err(400, "Validation Error", "errors.array()")

(***************************************************************************)
(* Token service                                                           *)
(***************************************************************************)
\* Sign with the subject under another payload key than the one auth reads
SignWrongClaim(uid, t) ==
  [kind |-> "jwt", sub |-> NoUser, exp |-> t + TokenTTL, sig |-> TRUE]

\* jwt.sign({ userId }, JWT_SECRET, { expiresIn: '7d' })
Sign(uid, t) == [kind |-> "jwt", sub |-> uid, exp |-> t + TokenTTL, sig |-> TRUE]

\* a string that is no JWT at all
Garbage == [kind |-> "garbage", sub |-> NoUser, exp |-> 0, sig |-> FALSE]
\* the empty string left by the header 'Bearer '
Empty == [kind |-> "empty", sub |-> NoUser, exp |-> 0, sig |-> FALSE]

\* The server keeps no record of the tokens it signed.  A client can hold any
\* token the server may have signed up to now: one for an identity that has
\* existed, expiring no later than TokenTTL from now.  Clients drop the tokens
\* that expired before now.
SignedTokens ==
  { [kind |-> "jwt", sub |-> u, exp |-> e, sig |-> TRUE] :
      u \in EverUsers, e \in { x \in now..(now + TokenTTL) : x >= TokenTTL } }

\* tokens signed with another secret
ForgedTokens ==
  { [kind |-> "jwt", sub |-> u, exp |-> e, sig |-> FALSE] :
      u \in EverUsers, e \in {now, now + TokenTTL} }

Tokens == SignedTokens \cup ForgedTokens \cup {Garbage, Empty}

\* the Authorization header of a request: absent, or 'Bearer <token>'
NoHeader == [present |-> FALSE, tok |-> Empty]
Bearer(t) == [present |-> TRUE, tok |-> t]
Headers == {NoHeader} \cup { Bearer(t) : t \in Tokens }

Idle == [op |-> "idle", hdr |-> NoHeader, uid |-> 0, id |-> 0, res |-> Ok(200, {})]

\* res.status(...).json(...)
Answer(op, hdr, uid, id, res) ==
  /\ last = Idle
  /\ last' = [op |-> op, hdr |-> hdr, uid |-> uid, id |-> id, res |-> res]

\* the answer of a handler that ran from its first line to its last
Reply(op, hdr, uid, id, res) ==
  /\ Answer(op, hdr, uid, id, res)
  /\ UNCHANGED inflight

\* the response reaches the client
Deliver ==
  /\ last # Idle
  /\ last' = Idle
  /\ UNCHANGED << users, tasks, categories, comments, kindOf, now, inflight >>

\* req.header('Authorization')?.replace('Bearer ', '')
ExtractToken(h) == IF h.present THEN {h.tok} ELSE {}

\* Verify accepting a token at the very tick it expires
VerifyInclusiveExpiry(tok, t) ==
  IF tok.kind # "jwt" THEN "malformed"
  ELSE IF ~tok.sig THEN "badsig"
  ELSE IF t > tok.exp THEN "expired"
  ELSE "ok"

\* jwt.verify(token, JWT_SECRET): the failure, or "ok"
Verify(tok, t) ==
  IF tok.kind # "jwt" THEN "malformed"
  ELSE IF ~tok.sig THEN "badsig"
  ELSE IF t >= tok.exp THEN "expired"
  ELSE "ok"

(***************************************************************************)
(* Auth middleware                                                         *)
(***************************************************************************)
Gate(kind, uid, res) == [kind |-> kind, uid |-> uid, res |-> res]

\* AuthGate as the first version of the middleware: every failure throws
\* into one catch that answers 'Please authenticate.'
AuthGateLegacy(us, t, h) ==
  LET token == ExtractToken(h)
      refuse == Err(401, "Please authenticate.", Absent)
  IN
  IF token = {} \/ Val(token).kind = "empty" THEN Gate("none", NoUser, refuse)
  ELSE LET v == Verify(Val(token), t) IN
       IF v # "ok" THEN Gate(v, NoUser, refuse)
       ELSE IF Val(token).sub \notin DOMAIN us THEN Gate("nouser", NoUser, refuse)
       ELSE Gate("ok", Val(token).sub, Ok(200, {}))

\* AuthGate throwing on a missing user, so that the outer catch answers 500
AuthGateThrowsOnMissingUser(us, t, h) ==
  LET token == ExtractToken(h) IN
  IF token = {} \/ Val(token).kind = "empty"
  THEN Gate("none", NoUser, Err(401, "Authentication required", "No token provided"))
  ELSE LET v == Verify(Val(token), t) IN
       IF v # "ok"
       THEN Gate(v, NoUser, Err(401, "Invalid token", "Token is invalid or expired"))
       ELSE IF Val(token).sub \notin DOMAIN us
       THEN Gate("nouser", NoUser,
                 Err(500, "Authentication error",
                     "An unexpected error occurred during authentication"))
       ELSE Gate("ok", Val(token).sub, Ok(200, {}))

\* AuthGate answering an expired token with a message of its own
AuthGateTellsExpiry(us, t, h) ==
  LET token == ExtractToken(h) IN
  IF token = {} \/ Val(token).kind = "empty"
  THEN Gate("none", NoUser, Err(401, "Authentication required", "No token provided"))
  ELSE LET v == Verify(Val(token), t) IN
       IF v = "expired"
       THEN Gate(v, NoUser, Err(401, "Token expired", "Please log in again"))
       ELSE IF v # "ok"
       THEN Gate(v, NoUser, Err(401, "Invalid token", "Token is invalid or expired"))
       ELSE IF Val(token).sub \notin DOMAIN us
       THEN Gate("nouser", NoUser,
                 Err(401, "User not found",
                     "The user associated with this token no longer exists"))
       ELSE Gate("ok", Val(token).sub, Ok(200, {}))

\* the middleware, reading the User collection us at time t
AuthGate(us, t, h) ==
  LET token == ExtractToken(h) IN
  IF token = {} \/ Val(token).kind = "empty"
  THEN Gate("none", NoUser, Err(401, "Authentication required", "No token provided"))
  ELSE LET v == Verify(Val(token), t) IN
       IF v # "ok"
       THEN Gate(v, NoUser, Err(401, "Invalid token", "Token is invalid or expired"))
       ELSE IF Val(token).sub \notin DOMAIN us
       THEN Gate("nouser", NoUser,
                 Err(401, "User not found",
                     "The user associated with this token no longer exists"))
       ELSE Gate("ok", Val(token).sub, Ok(200, {}))

auth(h) == AuthGate(users, now, h)

\* a request stopped by the middleware: the handler does not run
Rejected(op, h) ==
  /\ auth(h).kind # "ok"
  /\ Reply(op, h, NoUser, BadId, auth(h).res)
  /\ UNCHANGED << store, now >>

Init ==
  /\ users = << >>
  /\ tasks = << >>
  /\ categories = << >>
  /\ comments = << >>
  /\ kindOf = << >>
  /\ now = 0
  /\ last = Idle
  /\ inflight = [i \in 1..MaxInflight |-> NoRequest]

\* time passes
Tick ==
  /\ last = Idle
  /\ now < MaxTime
  /\ now' = now + 1
  /\ UNCHANGED << store, last, inflight >>

(***************************************************************************)
(* /api/users                                                              *)
(***************************************************************************)
FindUserByEmail(e) == { u \in DOMAIN users : users[u].email = Lower(e) }

UserView(u) == [id |-> u, email |-> users[u].email, name |-> users[u].name]

\* new User({ email, password, name })
SignupDoc(email, password, name) ==
  [email |-> Lower(email), name |-> Trim(name),
   password |-> Hash(password), githubId |-> Absent]

\* the User collection without its unique indexes
NoUserIndex(us, id, doc) == FALSE

\* the unique indexes of the User collection: another identity holds the
\* email, or the external id when the document has one
UserDuplicateKey(us, id, doc) ==
  \E u \in DOMAIN us \ {id} :
    \/ us[u].email = doc.email
    \/ doc.githubId # Absent /\ us[u].githubId = doc.githubId

\* Signup without the lookup of the email
SignupWithoutLookup(email, password, name) ==
  /\ UNCHANGED << tasks, categories, comments, now >>
  /\ IF ~IsEmail(email) \/ PasswordLength(password) < MinPasswordLength
        \/ ~NotEmpty(Trim(name))
     THEN /\ Reply("signup", NoHeader, NoUser, BadId, ValidationError)
          /\ UNCHANGED << users, kindOf >>
     ELSE IF UserDuplicateKey(users, NextId, SignupDoc(email, password, name))
     THEN /\ Reply("signup", NoHeader, NoUser, BadId,
                   Err(500, "Failed to create user", "error.message"))
          /\ UNCHANGED << users, kindOf >>
     ELSE /\ CanCreate
          /\ Cardinality(EverUsers) < MaxUsers
          /\ users' = users @@ (NextId :> SignupDoc(email, password, name))
          /\ kindOf' = Append(kindOf, "user")
          /\ Reply("signup", NoHeader, NoUser, NextId,
                   Ok(201, { [token |-> Sign(NextId, now), id |-> NextId,
                              email |-> Lower(email), name |-> Trim(name)] }))

\* POST /api/users/signup
Signup(email, password, name) ==
  /\ UNCHANGED << tasks, categories, comments, now >>
  /\ IF ~IsEmail(email) \/ PasswordLength(password) < MinPasswordLength
        \/ ~NotEmpty(Trim(name))
     THEN /\ Reply("signup", NoHeader, NoUser, BadId, ValidationError)
          /\ UNCHANGED << users, kindOf >>
     ELSE IF FindUserByEmail(email) # {}
     THEN /\ Reply("signup", NoHeader, NoUser, BadId,
                   Err(400, "User already exists",
                       "An account with this email address already exists"))
          /\ UNCHANGED << users, kindOf >>
     ELSE IF UserDuplicateKey(users, NextId, SignupDoc(email, password, name))
     THEN /\ Reply("signup", NoHeader, NoUser, BadId,
                   Err(500, "Failed to create user", "error.message"))
          /\ UNCHANGED << users, kindOf >>
     ELSE /\ CanCreate
          /\ Cardinality(EverUsers) < MaxUsers
          /\ users' = users @@ (NextId :> SignupDoc(email, password, name))
          /\ kindOf' = Append(kindOf, "user")
          /\ Reply("signup", NoHeader, NoUser, NextId,
                   Ok(201, { [token |-> Sign(NextId, now), id |-> NextId,
                              email |-> Lower(email), name |-> Trim(name)] }))

\* Login telling an unknown email from a wrong password
LoginTellsUnknownEmail(email, password) ==
  /\ UNCHANGED << store, now >>
  /\ IF ~IsEmail(email)
     THEN Reply("login", NoHeader, NoUser, BadId, ValidationError)
     ELSE LET found == FindUserByEmail(email) IN
          IF found = {}
          THEN Reply("login", NoHeader, NoUser, BadId,
                     Err(404, "User not found", "No account has this email address"))
          ELSE IF ~ComparePassword(users[Val(found)].password, password)
          THEN Reply("login", NoHeader, NoUser, BadId,
                     Err(401, "Invalid credentials",
                         "The email or password you entered is incorrect"))
          ELSE Reply("login", NoHeader, NoUser, Val(found),
                     Ok(200, { [token |-> Sign(Val(found), now)]
                                 @@ UserView(Val(found)) }))

\* POST /api/users/login
Login(email, password) ==
  /\ UNCHANGED << store, now >>
  /\ IF ~IsEmail(email)
     THEN Reply("login", NoHeader, NoUser, BadId, ValidationError)
     ELSE LET found == FindUserByEmail(email) IN
          IF found = {} \/ ~ComparePassword(users[Val(found)].password, password)
          THEN Reply("login", NoHeader, NoUser, BadId,
                     Err(401, "Invalid credentials",
                         "The email or password you entered is incorrect"))
          ELSE Reply("login", NoHeader, NoUser, Val(found),
                     Ok(200, { [token |-> Sign(Val(found), now)]
                                 @@ UserView(Val(found)) }))

\* the body GET /api/users/profile sends for req.user
ProfileOf(us, u) ==
  Ok(200, { [id |-> u, email |-> us[u].email, name |-> us[u].name,
             githubId |-> us[u].githubId] })

\* GET /api/users/profile
Profile(h) ==
  \/ Rejected("profile", h)
  \/ /\ auth(h).kind = "ok"
     /\ Reply("profile", h, auth(h).uid, BadId, ProfileOf(users, auth(h).uid))
     /\ UNCHANGED << store, now >>

\* the body of PUT /api/users/:id; `extra` is a key outside the allow-list
UserBodies ==
  { b \in [email : Opt({"b@x.io", "A@x.io", "not-an-email"}),
           password : Opt(Passwords),
           name : Opt(NameInputs),
           extra : BOOLEAN] :
      Cardinality({ f \in {b.email, b.password, b.name} : Has(f) })
        + (IF b.extra THEN 1 ELSE 0) <= 1 }

NoBody == [email |-> {}, password |-> {}, name |-> {}, extra |-> FALSE]

\* the bodies worth sending with header h: a rejected request's body is not read
BodiesFor(h, bodies, none) == IF auth(h).kind = "ok" THEN bodies ELSE {none}
\* nor are its route parameters
ParamsFor(h) == IF auth(h).kind = "ok" THEN IdParams ELSE {BadId}

\* UpdateUser writing the changed identity as a new document
UpdateUserAsNewDocument(h, id, b) ==
  \/ Rejected("putUser", h)
  \/ /\ auth(h).kind = "ok"
     /\ UNCHANGED << tasks, categories, comments, now >>
     /\ LET u == auth(h).uid
            taken == Has(b.email) /\ Val(b.email) # users[u].email
                     /\ FindUserByEmail(Val(b.email)) # {}
            updated == [users[u] EXCEPT
                          !.email = IF Has(b.email) THEN Lower(Val(b.email)) ELSE @,
                          !.password = IF Has(b.password) THEN Hash(Val(b.password)) ELSE @,
                          !.name = IF Has(b.name) THEN Trim(Val(b.name)) ELSE @]
        IN
        IF \/ Has(b.email) /\ ~IsEmail(Val(b.email))
           \/ Has(b.password) /\ PasswordLength(Val(b.password)) < MinPasswordLength
           \/ Has(b.name) /\ ~NotEmpty(Trim(Val(b.name)))
        THEN Reply("putUser", h, u, id, ValidationError) /\ UNCHANGED << users, kindOf >>
        ELSE IF id # u
        THEN /\ Reply("putUser", h, u, id,
                      Err(403, "Not authorized", "You can only update your own profile"))
             /\ UNCHANGED << users, kindOf >>
        ELSE IF b.extra
        THEN /\ Reply("putUser", h, u, id,
                      Err(400, "Invalid updates",
                          "You can only update name, email, and password"))
             /\ UNCHANGED << users, kindOf >>
        ELSE IF taken
        THEN /\ Reply("putUser", h, u, id,
                      Err(400, "Email already exists",
                          "An account with this email address already exists"))
             /\ UNCHANGED << users, kindOf >>
        ELSE /\ CanCreate
             /\ users' = [i \in (DOMAIN users \ {u}) \cup {NextId} |->
                            IF i = NextId THEN updated ELSE users[i]]
             /\ kindOf' = Append(kindOf, "user")
             /\ Reply("putUser", h, u, id,
                      Ok(200, { [id |-> NextId, email |-> updated.email,
                                 name |-> updated.name] }))

\* PUT /api/users/:id
UpdateUser(h, id, b) ==
  \/ Rejected("putUser", h)
  \/ /\ auth(h).kind = "ok"
     /\ UNCHANGED << tasks, categories, comments, kindOf, now >>
     /\ LET u == auth(h).uid
            taken == Has(b.email) /\ Val(b.email) # users[u].email
                     /\ FindUserByEmail(Val(b.email)) # {}
            updated == [users[u] EXCEPT
                          !.email = IF Has(b.email) THEN Lower(Val(b.email)) ELSE @,
                          !.password = IF Has(b.password) THEN Hash(Val(b.password)) ELSE @,
                          !.name = IF Has(b.name) THEN Trim(Val(b.name)) ELSE @]
        IN
        IF \/ Has(b.email) /\ ~IsEmail(Val(b.email))
           \/ Has(b.password) /\ PasswordLength(Val(b.password)) < MinPasswordLength
           \/ Has(b.name) /\ ~NotEmpty(Trim(Val(b.name)))
        THEN Reply("putUser", h, u, id, ValidationError) /\ UNCHANGED users
        ELSE IF id # u
        THEN /\ Reply("putUser", h, u, id,
                      Err(403, "Not authorized", "You can only update your own profile"))
             /\ UNCHANGED users
        ELSE IF b.extra
        THEN /\ Reply("putUser", h, u, id,
                      Err(400, "Invalid updates",
                          "You can only update name, email, and password"))
             /\ UNCHANGED users
        ELSE IF taken
        THEN /\ Reply("putUser", h, u, id,
                      Err(400, "Email already exists",
                          "An account with this email address already exists"))
             /\ UNCHANGED users
        ELSE /\ users' = [users EXCEPT ![u] = updated]
             /\ Reply("putUser", h, u, id,
                      Ok(200, { [id |-> u, email |-> updated.email,
                                 name |-> updated.name] }))

\* a function without the key k
Without(f, k) == [i \in DOMAIN f \ {k} |-> f[i]]

\* DeleteUser removing what the identity owns along with it
DeleteUserCascade(h, id) ==
  \/ Rejected("deleteUser", h)
  \/ /\ auth(h).kind = "ok"
     /\ UNCHANGED << kindOf, now >>
     /\ LET u == auth(h).uid IN
        IF id # u
        THEN /\ Reply("deleteUser", h, u, id,
                      Err(403, "Not authorized", "You can only delete your own account"))
             /\ UNCHANGED << users, tasks, categories, comments >>
        ELSE /\ users' = Without(users, u)
             /\ tasks' = [t \in { x \in DOMAIN tasks : tasks[x].user # u } |-> tasks[t]]
             /\ categories' = [c \in { x \in DOMAIN categories :
                                          categories[x].user # u } |-> categories[c]]
             /\ comments' = [c \in { x \in DOMAIN comments :
                                        comments[x].user # u } |-> comments[c]]
             /\ Reply("deleteUser", h, u, id,
                      Ok(200, { [message |-> "User account deleted successfully"] }))

\* DeleteUser removing whichever identity the path names
DeleteUserOfAnyone(h, id) ==
  \/ Rejected("deleteUser", h)
  \/ /\ auth(h).kind = "ok"
     /\ UNCHANGED << tasks, categories, comments, kindOf, now >>
     /\ LET u == auth(h).uid IN
        IF id \notin DOMAIN users
        THEN /\ Reply("deleteUser", h, u, id,
                      Err(404, "User not found", "The requested user does not exist"))
             /\ UNCHANGED users
        ELSE /\ users' = Without(users, id)
             /\ Reply("deleteUser", h, u, id,
                      Ok(200, { [message |-> "User account deleted successfully"] }))

\* DELETE /api/users/:id
DeleteUser(h, id) ==
  \/ Rejected("deleteUser", h)
  \/ /\ auth(h).kind = "ok"
     /\ UNCHANGED << tasks, categories, comments, kindOf, now >>
     /\ LET u == auth(h).uid IN
        IF id # u
        THEN /\ Reply("deleteUser", h, u, id,
                      Err(403, "Not authorized", "You can only delete your own account"))
             /\ UNCHANGED users
        ELSE /\ users' = Without(users, u)
             /\ Reply("deleteUser", h, u, id,
                      Ok(200, { [message |-> "User account deleted successfully"] }))

(***************************************************************************)
(* /api/auth                                                               *)
(***************************************************************************)
\* an identity without a password credential
NoPassword == << >>

\* what GitHub sends as the profile: an id, emails or none, a display name or
\* none, and a username
GithubIds == { "gh1" }
Profiles ==
  [id : GithubIds, email : Opt({"a@x.io"}), displayName : Opt({<<"a">>}),
   username : {<<"a">>}]
NoProfile ==
  [id |-> "gh1", email |-> {}, displayName |-> {}, username |-> <<"a">>]

\* `${profile.username}@github.com`
PlaceholderEmail(username) ==
  IF username = <<"a">> THEN "a@github.com" ELSE "user@github.com"

\* the document User.create is given for a first login
ProfileDoc(p) ==
  [email |-> IF Has(p.email) THEN Lower(Val(p.email))
             ELSE PlaceholderEmail(p.username),
   name |-> IF Has(p.displayName) THEN Val(p.displayName) ELSE p.username,
   password |-> NoPassword,
   githubId |-> p.id]

\* User.findOne({ githubId: profile.id })
FindUserByGithubId(us, g) == { u \in DOMAIN us : us[u].githubId = g }

\* outcomes of the exchange with GitHub: the user denied access (the strategy
\* fails), the exchange broke (the strategy errors), or a profile arrived
Outcomes == { "denied", "error", "profile" }

\* passport: fail() redirects to failureRedirect
FailureRedirect == Res(302, Absent, "/api/auth/github/failure", {})
\* passport: error(err) is next(err), answered by the app's error middleware
\* with err.status || 500
ErrorMiddleware(message) == Err(500, message, Absent)

\* the 200 body of the callback for identity u
CallbackBody(us, u, t) ==
  Ok(200, { [token |-> Sign(u, t), id |-> u, email |-> us[u].email,
             name |-> us[u].name, githubId |-> us[u].githubId] })

\* OAuthCallback bringing a known identity up to date with the profile
OAuthCallbackSyncsProfile(outcome, p) ==
  /\ UNCHANGED << tasks, categories, comments, now >>
  /\ IF outcome = "denied"
     THEN /\ Reply("oauthCallback", NoHeader, NoUser, BadId, FailureRedirect)
          /\ UNCHANGED << users, kindOf >>
     ELSE IF outcome = "error"
     THEN /\ Reply("oauthCallback", NoHeader, NoUser, BadId,
                   ErrorMiddleware("Failed to obtain access token"))
          /\ UNCHANGED << users, kindOf >>
     ELSE LET found == FindUserByGithubId(users, p.id) IN
          IF found # {}
          THEN /\ users' = [users EXCEPT ![Val(found)].email = ProfileDoc(p).email]
               /\ UNCHANGED kindOf
               /\ Reply("oauthCallback", NoHeader, NoUser, Val(found),
                        CallbackBody(users', Val(found), now))
          ELSE IF UserDuplicateKey(users, NextId, ProfileDoc(p))
          THEN /\ Reply("oauthCallback", NoHeader, NoUser, BadId,
                        ErrorMiddleware("E11000 duplicate key error"))
               /\ UNCHANGED << users, kindOf >>
          ELSE /\ CanCreate
               /\ Cardinality(EverUsers) < MaxUsers
               /\ users' = users @@ (NextId :> ProfileDoc(p))
               /\ kindOf' = Append(kindOf, "user")
               /\ Reply("oauthCallback", NoHeader, NoUser, NextId,
                        CallbackBody(users', NextId, now))

\* GET /api/auth/github/callback
OAuthCallback(outcome, p) ==
  /\ UNCHANGED << tasks, categories, comments, now >>
  /\ IF outcome = "denied"
     THEN /\ Reply("oauthCallback", NoHeader, NoUser, BadId, FailureRedirect)
          /\ UNCHANGED << users, kindOf >>
     ELSE IF outcome = "error"
     THEN /\ Reply("oauthCallback", NoHeader, NoUser, BadId,
                   ErrorMiddleware("Failed to obtain access token"))
          /\ UNCHANGED << users, kindOf >>
     ELSE LET found == FindUserByGithubId(users, p.id) IN
          IF found # {}
          THEN /\ Reply("oauthCallback", NoHeader, NoUser, Val(found),
                        CallbackBody(users, Val(found), now))
               /\ UNCHANGED << users, kindOf >>
          ELSE IF UserDuplicateKey(users, NextId, ProfileDoc(p))
          THEN /\ Reply("oauthCallback", NoHeader, NoUser, BadId,
                        ErrorMiddleware("E11000 duplicate key error"))
               /\ UNCHANGED << users, kindOf >>
          ELSE /\ CanCreate
               /\ Cardinality(EverUsers) < MaxUsers
               /\ users' = users @@ (NextId :> ProfileDoc(p))
               /\ kindOf' = Append(kindOf, "user")
               /\ Reply("oauthCallback", NoHeader, NoUser, NextId,
                        CallbackBody(users', NextId, now))

\* GET /api/auth/github/failure
OAuthFailure ==
  /\ Reply("oauthFailure", NoHeader, NoUser, BadId,
           Err(401, "GitHub authentication failed",
               "Could not authenticate with GitHub"))
  /\ UNCHANGED << store, now >>

\* GET /api/auth/error
AuthError ==
  /\ Reply("authError", NoHeader, NoUser, BadId,
           Res(401, "GitHub authentication failed", Absent,
               { [message |-> "Authentication failed"] }))
  /\ UNCHANGED << store, now >>

\* GET /api/auth/logout
Logout ==
  /\ Reply("logout", NoHeader, NoUser, BadId,
           Ok(200, { [message |-> "Logged out successfully"] }))
  /\ UNCHANGED << store, now >>

(***************************************************************************)
(* Handlers that look up, await, and then write: between the two awaits    *)
(* other requests are served                                               *)
(***************************************************************************)
FreeSlots == { i \in DOMAIN inflight : inflight[i] = NoRequest }
\* the slot a handler suspends in
Slot == CHOOSE i \in FreeSlots : \A j \in FreeSlots : i <= j
Suspend(r) == inflight' = [inflight EXCEPT ![Slot] = r]
Resume(i) == inflight' = [inflight EXCEPT ![i] = NoRequest]

\* POST /api/users/signup up to `await User.findOne({ email })` finding no one
SignupLookup(email, password, name) ==
  /\ IsEmail(email) /\ PasswordLength(password) >= MinPasswordLength
  /\ NotEmpty(Trim(name))
  /\ FindUserByEmail(email) = {}
  /\ FreeSlots # {}
  /\ Suspend([op |-> "signup", doc |-> SignupDoc(email, password, name)])
  /\ UNCHANGED << store, now, last >>

\* POST /api/users/signup from `await user.save()` on
SignupSave(i) ==
  /\ inflight[i].op = "signup"
  /\ Resume(i)
  /\ UNCHANGED << tasks, categories, comments, now >>
  /\ LET doc == inflight[i].doc IN
     IF UserDuplicateKey(users, NextId, doc)
     THEN /\ Answer("signup", NoHeader, NoUser, BadId,
                    Err(500, "Failed to create user", "error.message"))
          /\ UNCHANGED << users, kindOf >>
     ELSE /\ CanCreate
          /\ Cardinality(EverUsers) < MaxUsers
          /\ users' = users @@ (NextId :> doc)
          /\ kindOf' = Append(kindOf, "user")
          /\ Answer("signup", NoHeader, NoUser, NextId,
                    Ok(201, { [token |-> Sign(NextId, now), id |-> NextId,
                               email |-> doc.email, name |-> doc.name] }))

\* PUT /api/users/:id up to `await User.findOne({ email: req.body.email })`
\* finding no one
UpdateUserLookup(h, b) ==
  /\ auth(h).kind = "ok"
  /\ Has(b.email) /\ IsEmail(Val(b.email))
  /\ Val(b.email) # users[auth(h).uid].email
  /\ FindUserByEmail(Val(b.email)) = {}
  /\ FreeSlots # {}
  /\ Suspend([op |-> "putUser", hdr |-> h, uid |-> auth(h).uid,
              email |-> Lower(Val(b.email))])
  /\ UNCHANGED << store, now, last >>

\* PUT /api/users/:id from `await user.save()` on
UpdateUserSave(i) ==
  /\ inflight[i].op = "putUser"
  /\ Resume(i)
  /\ UNCHANGED << tasks, categories, comments, kindOf, now >>
  /\ LET r == inflight[i]
         u == r.uid
     IN
     IF u \notin DOMAIN users
           \/ UserDuplicateKey(users, u, [users[u] EXCEPT !.email = r.email])
     THEN /\ Answer("putUser", r.hdr, u, u,
                    Err(500, "Failed to update user", "error.message"))
          /\ UNCHANGED users
     ELSE /\ users' = [users EXCEPT ![u].email = r.email]
          /\ Answer("putUser", r.hdr, u, u,
                    Ok(200, { [id |-> u, email |-> r.email,
                               name |-> users[u].name] }))

\* the GitHub strategy's verify callback up to
\* `await User.findOne({ githubId: profile.id })` finding no one
OAuthLookup(p) ==
  /\ FindUserByGithubId(users, p.id) = {}
  /\ FreeSlots # {}
  /\ Suspend([op |-> "oauth", doc |-> ProfileDoc(p)])
  /\ UNCHANGED << store, now, last >>

\* the verify callback from `await User.create(...)` on, and the route handler
OAuthCreate(i) ==
  /\ inflight[i].op = "oauth"
  /\ Resume(i)
  /\ UNCHANGED << tasks, categories, comments, now >>
  /\ LET doc == inflight[i].doc IN
     IF UserDuplicateKey(users, NextId, doc)
     THEN /\ Answer("oauthCallback", NoHeader, NoUser, BadId,
                    ErrorMiddleware("E11000 duplicate key error"))
          /\ UNCHANGED << users, kindOf >>
     ELSE /\ CanCreate
          /\ Cardinality(EverUsers) < MaxUsers
          /\ users' = users @@ (NextId :> doc)
          /\ kindOf' = Append(kindOf, "user")
          /\ Answer("oauthCallback", NoHeader, NoUser, NextId,
                    CallbackBody(users', NextId, now))

(***************************************************************************)
(* /api/tasks                                                              *)
(***************************************************************************)
Priorities == { "low", "medium", "high" }
Statuses == { "pending", "in-progress", "completed" }

\* what clients send
TitleInputs == { <<" ">>, <<" ", "a">> }
PriorityInputs == { "high", "urgent" }
StatusInputs == { "completed", "bogus" }

Present(b, keys) == Cardinality({ k \in keys : Has(b[k]) })

\* request bodies for POST and PUT /api/tasks: at most two keys
TaskFields ==
  [title : Opt(TitleInputs), priority : Opt(PriorityInputs),
   status : Opt(StatusInputs), user : Opt(EverUsers)]

\* request bodies of POST /api/tasks: a title or none, and at most one more key
NewTaskBodies ==
  { b \in TaskFields : Present(b, {"priority", "status", "user"}) <= 1 }

\* request bodies of PUT /api/tasks/:id: at most one key
TaskBodies ==
  { b \in TaskFields : Present(b, {"title", "priority", "status", "user"}) <= 1 }

NoTaskBody == [title |-> {}, priority |-> {}, status |-> {}, user |-> {}]

TaskView(t) == { [id |-> t] @@ tasks[t] }

\* FindTask by id alone, as Task.findById(id) would
FindTaskAnyOwner(id, uid) == { t \in DOMAIN tasks : t = id }

\* Task.findOne({ _id: id, user: uid })
FindTask(id, uid) == { t \in DOMAIN tasks : t = id /\ tasks[t].user = uid }

TaskNotFound ==
  Err(404, "Task not found",
      "The requested task does not exist or you do not have permission to access it")
InvalidTaskId == Err(404, "Invalid task ID", "The provided task ID is not valid")

\* CreateTask spreading the body over the owner: { user: req.user._id, ...req.body }
CreateTaskOwnerFromBody(h, b) ==
  \/ Rejected("postTask", h)
  \/ /\ auth(h).kind = "ok"
     /\ UNCHANGED << users, categories, comments, now >>
     /\ LET u == auth(h).uid
            doc == [user |-> IF Has(b.user) THEN Val(b.user) ELSE u,
                    title |-> Trim(Val(b.title)),
                    priority |-> IF Has(b.priority) THEN Val(b.priority) ELSE "medium",
                    status |-> IF Has(b.status) THEN Val(b.status) ELSE "pending"]
        IN
        IF \/ ~Has(b.title) \/ ~NotEmpty(Trim(Val(b.title)))
           \/ Has(b.status) /\ Val(b.status) \notin Statuses
           \/ Has(b.priority) /\ Val(b.priority) \notin Priorities
        THEN /\ Reply("postTask", h, u, BadId, ValidationError)
             /\ UNCHANGED << tasks, kindOf >>
        ELSE /\ CanCreate
             /\ tasks' = tasks @@ (NextId :> doc)
             /\ kindOf' = Append(kindOf, "task")
             /\ Reply("postTask", h, u, NextId, Ok(201, { [id |-> NextId] @@ doc }))

\* POST /api/tasks
CreateTask(h, b) ==
  \/ Rejected("postTask", h)
  \/ /\ auth(h).kind = "ok"
     /\ UNCHANGED << users, categories, comments, now >>
     /\ LET u == auth(h).uid
            doc == [user |-> u,
                    title |-> Trim(Val(b.title)),
                    priority |-> IF Has(b.priority) THEN Val(b.priority) ELSE "medium",
                    status |-> IF Has(b.status) THEN Val(b.status) ELSE "pending"]
        IN
        IF \/ ~Has(b.title) \/ ~NotEmpty(Trim(Val(b.title)))
           \/ Has(b.status) /\ Val(b.status) \notin Statuses
           \/ Has(b.priority) /\ Val(b.priority) \notin Priorities
        THEN /\ Reply("postTask", h, u, BadId, ValidationError)
             /\ UNCHANGED << tasks, kindOf >>
        ELSE /\ CanCreate
             /\ tasks' = tasks @@ (NextId :> doc)
             /\ kindOf' = Append(kindOf, "task")
             /\ Reply("postTask", h, u, NextId, Ok(201, { [id |-> NextId] @@ doc }))

\* the query of GET /api/tasks: ?status= and ?priority=, each given or not
TaskQueries == [status : Opt({"completed"}), priority : Opt({"high"})]

\* ListTasks without the owner in the filter
ListTasksOfEveryone(h, q) ==
  \/ Rejected("listTasks", h)
  \/ /\ auth(h).kind = "ok"
     /\ UNCHANGED << store, now >>
     /\ LET u == auth(h).uid
            match == { t \in DOMAIN tasks :
                         /\ Has(q.status) => tasks[t].status = Val(q.status)
                         /\ Has(q.priority) => tasks[t].priority = Val(q.priority) }
        IN Reply("listTasks", h, u, BadId,
                 Ok(200, { [id |-> t] @@ tasks[t] : t \in match }))

\* GET /api/tasks?status=&priority=
ListTasks(h, q) ==
  \/ Rejected("listTasks", h)
  \/ /\ auth(h).kind = "ok"
     /\ UNCHANGED << store, now >>
     /\ LET u == auth(h).uid
            match == { t \in DOMAIN tasks :
                         /\ tasks[t].user = u
                         /\ Has(q.status) => tasks[t].status = Val(q.status)
                         /\ Has(q.priority) => tasks[t].priority = Val(q.priority) }
        IN Reply("listTasks", h, u, BadId,
                 Ok(200, { [id |-> t] @@ tasks[t] : t \in match }))

\* GetTask answering 403 for a task of another owner
GetTaskForbidsOthers(h, id) ==
  \/ Rejected("getTask", h)
  \/ /\ auth(h).kind = "ok"
     /\ UNCHANGED << store, now >>
     /\ LET u == auth(h).uid IN
        IF id = BadId THEN Reply("getTask", h, u, id, InvalidTaskId)
        ELSE IF id \notin DOMAIN tasks THEN Reply("getTask", h, u, id, TaskNotFound)
        ELSE IF tasks[id].user # u
        THEN Reply("getTask", h, u, id,
                   Err(403, "Access denied", "You do not have access to this task"))
        ELSE Reply("getTask", h, u, id, Ok(200, TaskView(id)))

\* GET /api/tasks/:id
GetTask(h, id) ==
  \/ Rejected("getTask", h)
  \/ /\ auth(h).kind = "ok"
     /\ UNCHANGED << store, now >>
     /\ LET u == auth(h).uid IN
        IF id = BadId THEN Reply("getTask", h, u, id, InvalidTaskId)
        ELSE IF FindTask(id, u) = {} THEN Reply("getTask", h, u, id, TaskNotFound)
        ELSE Reply("getTask", h, u, id, Ok(200, TaskView(id)))

\* UpdateTask without the validators of the route
UpdateTaskUnvalidated(h, id, b) ==
  \/ Rejected("putTask", h)
  \/ /\ auth(h).kind = "ok"
     /\ UNCHANGED << users, categories, comments, kindOf, now >>
     /\ LET u == auth(h).uid
            updated == [tasks[id] EXCEPT
                          !.title = IF Has(b.title) THEN Trim(Val(b.title)) ELSE @,
                          !.priority = IF Has(b.priority) THEN Val(b.priority) ELSE @,
                          !.status = IF Has(b.status) THEN Val(b.status) ELSE @,
                          !.user = IF Has(b.user) THEN Val(b.user) ELSE @]
        IN
        IF id = BadId
        THEN Reply("putTask", h, u, id, InvalidTaskId) /\ UNCHANGED tasks
        ELSE IF FindTask(id, u) = {}
        THEN Reply("putTask", h, u, id, TaskNotFound) /\ UNCHANGED tasks
        ELSE /\ tasks' = [tasks EXCEPT ![id] = updated]
             /\ Reply("putTask", h, u, id, Ok(200, { [id |-> id] @@ updated }))

\* PUT /api/tasks/:id
UpdateTask(h, id, b) ==
  \/ Rejected("putTask", h)
  \/ /\ auth(h).kind = "ok"
     /\ UNCHANGED << users, categories, comments, kindOf, now >>
     /\ LET u == auth(h).uid
            updated == [tasks[id] EXCEPT
                          !.title = IF Has(b.title) THEN Trim(Val(b.title)) ELSE @,
                          !.priority = IF Has(b.priority) THEN Val(b.priority) ELSE @,
                          !.status = IF Has(b.status) THEN Val(b.status) ELSE @,
                          !.user = IF Has(b.user) THEN Val(b.user) ELSE @]
        IN
        IF \/ Has(b.title) /\ ~NotEmpty(Trim(Val(b.title)))
           \/ Has(b.status) /\ Val(b.status) \notin Statuses
           \/ Has(b.priority) /\ Val(b.priority) \notin Priorities
        THEN Reply("putTask", h, u, id, ValidationError) /\ UNCHANGED tasks
        ELSE IF id = BadId
        THEN Reply("putTask", h, u, id, InvalidTaskId) /\ UNCHANGED tasks
        ELSE IF FindTask(id, u) = {}
        THEN Reply("putTask", h, u, id, TaskNotFound) /\ UNCHANGED tasks
        ELSE /\ tasks' = [tasks EXCEPT ![id] = updated]
             /\ Reply("putTask", h, u, id, Ok(200, { [id |-> id] @@ updated }))

\* DELETE /api/tasks/:id
DeleteTask(h, id) ==
  \/ Rejected("deleteTask", h)
  \/ /\ auth(h).kind = "ok"
     /\ UNCHANGED << users, categories, comments, kindOf, now >>
     /\ LET u == auth(h).uid IN
        IF id = BadId
        THEN Reply("deleteTask", h, u, id, InvalidTaskId) /\ UNCHANGED tasks
        ELSE IF FindTask(id, u) = {}
        THEN Reply("deleteTask", h, u, id, TaskNotFound) /\ UNCHANGED tasks
        ELSE /\ tasks' = Without(tasks, id)
             /\ Reply("deleteTask", h, u, id,
                      Res(200, "Task deleted successfully", Absent, {}))

(***************************************************************************)
(* /api/categories                                                         *)
(***************************************************************************)
\* request bodies of POST and PUT /api/categories: a name, an owner, or both
CategoryBodies == [name : Opt(Texts \ {<<>>}), user : Opt(EverUsers)]

NoCategoryBody == [name |-> {}, user |-> {}]

\* bodies of POST /api/categories that also carry the key _id
CategoryBodiesWithId(ids) ==
  { b @@ [_id |-> i] : b \in { x \in CategoryBodies : ~Has(x.user) }, i \in ids }

\* req.body._id, when the body carries the key
GivenId(b) == IF "_id" \in DOMAIN b THEN {b._id} ELSE {}

\* the category ids clients have seen, and 'invalidid'
KnownCategoryIds == {BadId} \cup { i \in 1..Len(kindOf) : kindOf[i] = "category" }

\* Category.findOne({ _id: id, user: uid })
FindCategory(id, uid) ==
  { c \in DOMAIN categories : c = id /\ categories[c].user = uid }

\* a unique index on the name alone
DuplicateName(id, doc) ==
  \E c \in DOMAIN categories \ {id} : categories[c].name = doc.name

\* the unique index { user: 1, name: 1 }: another category holds the pair
DuplicateKey(id, doc) ==
  \E c \in DOMAIN categories \ {id} :
    categories[c].user = doc.user /\ categories[c].name = doc.name

CategoryNotFound ==
  Err(404, "Category not found",
      "The specified category does not exist or you do not have access to it")
InvalidCategoryId ==
  Err(404, "Category not found", "The specified category ID is invalid")
CategoryExists ==
  Err(400, "Category already exists",
      "A category with this name already exists for your account")

\* POST /api/categories
CreateCategory(h, b) ==
  \/ Rejected("postCategory", h)
  \/ /\ auth(h).kind = "ok"
     /\ UNCHANGED << users, tasks, comments, now >>
     /\ LET u == auth(h).uid
            doc == [user |-> u, name |-> Trim(Val(b.name))]
            \* { ...req.body, user }: the _id of the body, or a generated one
            given == GivenId(b)
            id == IF given = {} THEN NextId ELSE Val(given)
        IN
        IF ~Has(b.name) \/ ~NotEmpty(Trim(Val(b.name)))
        THEN /\ Reply("postCategory", h, u, BadId, ValidationError)
             /\ UNCHANGED << categories, kindOf >>
        ELSE IF given # {} /\ id = BadId
        THEN /\ Reply("postCategory", h, u, BadId,
                      Err(500, "Failed to create category", "error.message"))
             /\ UNCHANGED << categories, kindOf >>
        ELSE IF id \in DOMAIN categories \/ DuplicateKey(BadId, doc)
        THEN /\ Reply("postCategory", h, u, BadId, CategoryExists)
             /\ UNCHANGED << categories, kindOf >>
        ELSE /\ given = {} => CanCreate
             /\ categories' = categories @@ (id :> doc)
             /\ kindOf' = IF given = {} THEN Append(kindOf, "category") ELSE kindOf
             /\ Reply("postCategory", h, u, id, Ok(201, { [id |-> id] @@ doc }))

\* GET /api/categories
ListCategories(h) ==
  \/ Rejected("listCategories", h)
  \/ /\ auth(h).kind = "ok"
     /\ UNCHANGED << store, now >>
     /\ LET u == auth(h).uid IN
        Reply("listCategories", h, u, BadId,
              Ok(200, { [id |-> c] @@ categories[c] :
                          c \in { x \in DOMAIN categories : categories[x].user = u } }))

\* GET /api/categories/:id
GetCategory(h, id) ==
  \/ Rejected("getCategory", h)
  \/ /\ auth(h).kind = "ok"
     /\ UNCHANGED << store, now >>
     /\ LET u == auth(h).uid IN
        IF id = BadId THEN Reply("getCategory", h, u, id, InvalidCategoryId)
        ELSE IF FindCategory(id, u) = {}
        THEN Reply("getCategory", h, u, id, CategoryNotFound)
        ELSE Reply("getCategory", h, u, id,
                   Ok(200, { [id |-> id] @@ categories[id] }))

\* PUT /api/categories/:id
UpdateCategory(h, id, b) ==
  \/ Rejected("putCategory", h)
  \/ /\ auth(h).kind = "ok"
     /\ UNCHANGED << users, tasks, comments, kindOf, now >>
     /\ LET u == auth(h).uid
            updated == [categories[id] EXCEPT
                          !.name = IF Has(b.name) THEN Trim(Val(b.name)) ELSE @,
                          !.user = IF Has(b.user) THEN Val(b.user) ELSE @]
        IN
        IF Has(b.name) /\ ~NotEmpty(Trim(Val(b.name)))
        THEN Reply("putCategory", h, u, id, ValidationError) /\ UNCHANGED categories
        ELSE IF id = BadId
        THEN Reply("putCategory", h, u, id, InvalidCategoryId) /\ UNCHANGED categories
        ELSE IF FindCategory(id, u) = {}
        THEN Reply("putCategory", h, u, id, CategoryNotFound) /\ UNCHANGED categories
        ELSE IF DuplicateKey(id, updated)
        THEN Reply("putCategory", h, u, id, CategoryExists) /\ UNCHANGED categories
        ELSE /\ categories' = [categories EXCEPT ![id] = updated]
             /\ Reply("putCategory", h, u, id, Ok(200, { [id |-> id] @@ updated }))

\* DELETE /api/categories/:id
DeleteCategory(h, id) ==
  \/ Rejected("deleteCategory", h)
  \/ /\ auth(h).kind = "ok"
     /\ UNCHANGED << users, tasks, comments, kindOf, now >>
     /\ LET u == auth(h).uid IN
        IF id = BadId
        THEN Reply("deleteCategory", h, u, id, InvalidCategoryId)
             /\ UNCHANGED categories
        ELSE IF FindCategory(id, u) = {}
        THEN Reply("deleteCategory", h, u, id, CategoryNotFound)
             /\ UNCHANGED categories
        ELSE /\ categories' = Without(categories, id)
             /\ Reply("deleteCategory", h, u, id,
                      Res(200, "Category deleted successfully", Absent, {}))

(***************************************************************************)
(* /api/comments                                                           *)
(***************************************************************************)
\* what clients send as a comment's content
NewContentInputs == { <<" ">>, <<" ", "a">> }
ContentInputs == { <<" ">>, <<"b">> }

\* the JSON of a reference to the author: the ObjectId alone
Ref(uid) == [oid |-> uid]

\* .populate('user', 'name email'): the author's record, or null
Populate(uid) ==
  IF uid \in DOMAIN users
  THEN [oid |-> uid, name |-> users[uid].name, email |-> users[uid].email]
  ELSE [null |-> TRUE]

\* res.json(comment) of a comment document
CommentJson(id, doc) == [[id |-> id] @@ doc EXCEPT !.user = Ref(@)]

CommentView(c) == CommentJson(c, comments[c])
\* the comment as found without .populate
UnpopulatedView(c) == CommentView(c)

PopulatedView(c) == [CommentView(c) EXCEPT !.user = Populate(comments[c].user)]

CommentTaskNotFound ==
  Err(404, "Task not found",
      "The specified task does not exist or you do not have access to it")
CommentTaskInvalid == Err(404, "Task not found", "The specified task ID is invalid")
CommentNotFound ==
  Err(404, "Comment not found", "The specified comment does not exist")
InvalidCommentId ==
  Err(404, "Comment not found", "The specified comment ID is invalid")

\* CreateComment looking the task up by id alone
CreateCommentAnyTask(h, content, task) ==
  \/ Rejected("postComment", h)
  \/ /\ auth(h).kind = "ok"
     /\ UNCHANGED << users, tasks, categories, now >>
     /\ LET u == auth(h).uid
            doc == [user |-> u, task |-> Val(task), content |-> Trim(Val(content))]
        IN
        IF ~Has(content) \/ ~NotEmpty(Trim(Val(content))) \/ ~Has(task)
        THEN /\ Reply("postComment", h, u, IF Has(task) THEN Val(task) ELSE BadId,
                      ValidationError)
             /\ UNCHANGED << comments, kindOf >>
        ELSE IF Val(task) = BadId
        THEN /\ Reply("postComment", h, u, Val(task), CommentTaskInvalid)
             /\ UNCHANGED << comments, kindOf >>
        ELSE IF Val(task) \notin DOMAIN tasks
        THEN /\ Reply("postComment", h, u, Val(task), CommentTaskNotFound)
             /\ UNCHANGED << comments, kindOf >>
        ELSE /\ CanCreate
             /\ comments' = comments @@ (NextId :> doc)
             /\ kindOf' = Append(kindOf, "comment")
             /\ Reply("postComment", h, u, Val(task),
                      Ok(201, { CommentJson(NextId, doc) }))

\* Task.findOne({ _id: ref, user: uid }) with ref as the body gave it: an id,
\* or an operator object, which the query takes as a condition on _id
FindTaskByRef(ref, uid) ==
  IF ref = NotNull THEN { t \in DOMAIN tasks : tasks[t].user = uid }
  ELSE FindTask(ref, uid)

\* POST /api/comments
CreateComment(h, content, task) ==
  \/ Rejected("postComment", h)
  \/ /\ auth(h).kind = "ok"
     /\ UNCHANGED << users, tasks, categories, now >>
     /\ LET u == auth(h).uid
            doc == [user |-> u, task |-> Val(task), content |-> Trim(Val(content))]
        IN
        IF ~Has(content) \/ ~NotEmpty(Trim(Val(content))) \/ ~Has(task)
        THEN /\ Reply("postComment", h, u, IF Has(task) THEN Val(task) ELSE BadId,
                      ValidationError)
             /\ UNCHANGED << comments, kindOf >>
        ELSE IF Val(task) = BadId
        THEN /\ Reply("postComment", h, u, Val(task), CommentTaskInvalid)
             /\ UNCHANGED << comments, kindOf >>
        ELSE IF FindTaskByRef(Val(task), u) = {}
        THEN /\ Reply("postComment", h, u, Val(task), CommentTaskNotFound)
             /\ UNCHANGED << comments, kindOf >>
        \* new Comment({ task: <object> }) fails to cast: save() rejects with a
        \* ValidationError, which the catch does not take for a CastError
        ELSE IF Val(task) = NotNull
        THEN /\ Reply("postComment", h, u, Val(task),
                      Err(500, "Failed to create comment", "error.message"))
             /\ UNCHANGED << comments, kindOf >>
        ELSE /\ CanCreate
             /\ comments' = comments @@ (NextId :> doc)
             /\ kindOf' = Append(kindOf, "comment")
             /\ Reply("postComment", h, u, Val(task),
                      Ok(201, { CommentJson(NextId, doc) }))

\* ListComments without the lookup of the task
ListCommentsAnyTask(h, taskId) ==
  \/ Rejected("listComments", h)
  \/ /\ auth(h).kind = "ok"
     /\ UNCHANGED << store, now >>
     /\ LET u == auth(h).uid IN
        IF taskId = BadId THEN Reply("listComments", h, u, taskId, CommentTaskInvalid)
        ELSE Reply("listComments", h, u, taskId,
                   Ok(200, { PopulatedView(c) :
                               c \in { x \in DOMAIN comments :
                                         comments[x].task = taskId } }))

\* GET /api/comments/task/:taskId
ListComments(h, taskId) ==
  \/ Rejected("listComments", h)
  \/ /\ auth(h).kind = "ok"
     /\ UNCHANGED << store, now >>
     /\ LET u == auth(h).uid IN
        IF taskId = BadId THEN Reply("listComments", h, u, taskId, CommentTaskInvalid)
        ELSE IF FindTask(taskId, u) = {}
        THEN Reply("listComments", h, u, taskId, CommentTaskNotFound)
        ELSE Reply("listComments", h, u, taskId,
                   Ok(200, { PopulatedView(c) :
                               c \in { x \in DOMAIN comments :
                                         comments[x].task = taskId } }))

\* GetComment checking the author, as PUT and DELETE do, instead of the task
GetCommentByAuthor(h, id) ==
  \/ Rejected("getComment", h)
  \/ /\ auth(h).kind = "ok"
     /\ UNCHANGED << store, now >>
     /\ LET u == auth(h).uid IN
        IF id = BadId THEN Reply("getComment", h, u, id, InvalidCommentId)
        ELSE IF id \notin DOMAIN comments
        THEN Reply("getComment", h, u, id, CommentNotFound)
        ELSE IF comments[id].user # u
        THEN Reply("getComment", h, u, id,
                   Err(403, "Access denied", "You do not have access to this comment"))
        ELSE Reply("getComment", h, u, id, Ok(200, { PopulatedView(id) }))

\* GET /api/comments/:id
GetComment(h, id) ==
  \/ Rejected("getComment", h)
  \/ /\ auth(h).kind = "ok"
     /\ UNCHANGED << store, now >>
     /\ LET u == auth(h).uid IN
        IF id = BadId THEN Reply("getComment", h, u, id, InvalidCommentId)
        ELSE IF id \notin DOMAIN comments
        THEN Reply("getComment", h, u, id, CommentNotFound)
        ELSE IF FindTask(comments[id].task, u) = {}
        THEN Reply("getComment", h, u, id,
                   Err(403, "Access denied", "You do not have access to this comment"))
        ELSE Reply("getComment", h, u, id, Ok(200, { PopulatedView(id) }))

\* PUT /api/comments/:id
UpdateComment(h, id, content) ==
  \/ Rejected("putComment", h)
  \/ /\ auth(h).kind = "ok"
     /\ UNCHANGED << users, tasks, categories, kindOf, now >>
     /\ LET u == auth(h).uid
            updated == [comments[id] EXCEPT !.content = Trim(Val(content))]
        IN
        IF ~Has(content) \/ ~NotEmpty(Trim(Val(content)))
        THEN Reply("putComment", h, u, id, ValidationError) /\ UNCHANGED comments
        ELSE IF id = BadId
        THEN Reply("putComment", h, u, id, InvalidCommentId) /\ UNCHANGED comments
        ELSE IF id \notin DOMAIN comments
        THEN Reply("putComment", h, u, id, CommentNotFound) /\ UNCHANGED comments
        ELSE IF comments[id].user # u
        THEN /\ Reply("putComment", h, u, id,
                      Err(403, "Access denied", "You can only update your own comments"))
             /\ UNCHANGED comments
        ELSE /\ comments' = [comments EXCEPT ![id] = updated]
             /\ Reply("putComment", h, u, id, Ok(200, { [id |-> id] @@ updated }))

\* DeleteComment without the comparison of the author
DeleteCommentAnyAuthor(h, id) ==
  \/ Rejected("deleteComment", h)
  \/ /\ auth(h).kind = "ok"
     /\ UNCHANGED << users, tasks, categories, kindOf, now >>
     /\ LET u == auth(h).uid IN
        IF id = BadId
        THEN Reply("deleteComment", h, u, id, InvalidCommentId) /\ UNCHANGED comments
        ELSE IF id \notin DOMAIN comments
        THEN Reply("deleteComment", h, u, id, CommentNotFound) /\ UNCHANGED comments
        ELSE /\ comments' = Without(comments, id)
             /\ Reply("deleteComment", h, u, id,
                      Res(200, "Comment deleted successfully", Absent, {}))

\* DELETE /api/comments/:id
DeleteComment(h, id) ==
  \/ Rejected("deleteComment", h)
  \/ /\ auth(h).kind = "ok"
     /\ UNCHANGED << users, tasks, categories, kindOf, now >>
     /\ LET u == auth(h).uid IN
        IF id = BadId
        THEN Reply("deleteComment", h, u, id, InvalidCommentId) /\ UNCHANGED comments
        ELSE IF id \notin DOMAIN comments
        THEN Reply("deleteComment", h, u, id, CommentNotFound) /\ UNCHANGED comments
        ELSE IF comments[id].user # u
        THEN /\ Reply("deleteComment", h, u, id,
                      Err(403, "Access denied", "You can only delete your own comments"))
             /\ UNCHANGED comments
        ELSE /\ comments' = Without(comments, id)
             /\ Reply("deleteComment", h, u, id,
                      Res(200, "Comment deleted successfully", Absent, {}))

(***************************************************************************)
(* The task and category handlers that find a document, await, and then    *)
(* write it: between the two awaits other requests are served               *)
(***************************************************************************)
\* task[key] = req.body[key] for every key of the body, on the document found
AssignTask(doc, b) ==
  [doc EXCEPT !.title = IF Has(b.title) THEN Trim(Val(b.title)) ELSE @,
              !.priority = IF Has(b.priority) THEN Val(b.priority) ELSE @,
              !.status = IF Has(b.status) THEN Val(b.status) ELSE @,
              !.user = IF Has(b.user) THEN Val(b.user) ELSE @]

\* the paths save() writes: those whose value differs from the one found
Modified(found, assigned) == { k \in DOMAIN found : assigned[k] # found[k] }

\* updateOne({ _id }, { $set: ... }) of the modified paths on the stored document
SetPaths(stored, assigned, paths) ==
  [k \in DOMAIN stored |-> IF k \in paths THEN assigned[k] ELSE stored[k]]

\* PUT /api/tasks/:id up to `await Task.findOne({ _id, user })` finding the task
UpdateTaskLookup(h, id, b) ==
  /\ auth(h).kind = "ok"
  /\ ~(Has(b.title) /\ ~NotEmpty(Trim(Val(b.title))))
  /\ ~(Has(b.status) /\ Val(b.status) \notin Statuses)
  /\ ~(Has(b.priority) /\ Val(b.priority) \notin Priorities)
  /\ id # BadId
  /\ FindTask(id, auth(h).uid) # {}
  /\ FreeSlots # {}
  /\ Suspend([op |-> "putTask", hdr |-> h, uid |-> auth(h).uid, id |-> id,
              found |-> tasks[id], assigned |-> AssignTask(tasks[id], b)])
  /\ UNCHANGED << store, now, last >>

\* PUT /api/tasks/:id from `await task.save()` on: save() writes the modified
\* paths by _id alone and throws when no document has the _id any more
UpdateTaskSave(i) ==
  /\ inflight[i].op = "putTask"
  /\ Resume(i)
  /\ UNCHANGED << users, categories, comments, kindOf, now >>
  /\ LET r == inflight[i]
         paths == Modified(r.found, r.assigned)
     IN
     IF paths = {}
     THEN /\ Answer("putTask", r.hdr, r.uid, r.id,
                    Ok(200, { [id |-> r.id] @@ r.assigned }))
          /\ UNCHANGED tasks
     ELSE IF r.id \notin DOMAIN tasks
     THEN /\ Answer("putTask", r.hdr, r.uid, r.id,
                    Err(500, "Failed to update task", "error.message"))
          /\ UNCHANGED tasks
     ELSE /\ tasks' = [tasks EXCEPT ![r.id] = SetPaths(@, r.assigned, paths)]
          /\ Answer("putTask", r.hdr, r.uid, r.id,
                    Ok(200, { [id |-> r.id] @@ r.assigned }))

\* DELETE /api/tasks/:id up to `await Task.findOne({ _id, user })` finding the task
DeleteTaskLookup(h, id) ==
  /\ auth(h).kind = "ok"
  /\ id # BadId
  /\ FindTask(id, auth(h).uid) # {}
  /\ FreeSlots # {}
  /\ Suspend([op |-> "deleteTask", hdr |-> h, uid |-> auth(h).uid, id |-> id,
              found |-> tasks[id]])
  /\ UNCHANGED << store, now, last >>

\* DELETE /api/tasks/:id from `await task.deleteOne()` on: deleteOne removes by
\* _id alone, whatever has become of the document
DeleteTaskRemove(i) ==
  /\ inflight[i].op = "deleteTask"
  /\ Resume(i)
  /\ UNCHANGED << users, categories, comments, kindOf, now >>
  /\ LET r == inflight[i] IN
     /\ tasks' = IF r.id \in DOMAIN tasks THEN Without(tasks, r.id) ELSE tasks
     /\ Answer("deleteTask", r.hdr, r.uid, r.id,
               Res(200, "Task deleted successfully", Absent, {}))

\* Object.assign(category, req.body)
AssignCategory(doc, b) ==
  [doc EXCEPT !.name = IF Has(b.name) THEN Trim(Val(b.name)) ELSE @,
              !.user = IF Has(b.user) THEN Val(b.user) ELSE @]

\* PUT /api/categories/:id up to `await Category.findOne({ _id, user })`
\* finding the category
UpdateCategoryLookup(h, id, b) ==
  /\ auth(h).kind = "ok"
  /\ ~(Has(b.name) /\ ~NotEmpty(Trim(Val(b.name))))
  /\ id # BadId
  /\ FindCategory(id, auth(h).uid) # {}
  /\ FreeSlots # {}
  /\ Suspend([op |-> "putCategory", hdr |-> h, uid |-> auth(h).uid, id |-> id,
              found |-> categories[id],
              assigned |-> AssignCategory(categories[id], b)])
  /\ UNCHANGED << store, now, last >>

\* PUT /api/categories/:id from `await category.save()` on
UpdateCategorySave(i) ==
  /\ inflight[i].op = "putCategory"
  /\ Resume(i)
  /\ UNCHANGED << users, tasks, comments, kindOf, now >>
  /\ LET r == inflight[i]
         paths == Modified(r.found, r.assigned)
     IN
     IF paths = {}
     THEN /\ Answer("putCategory", r.hdr, r.uid, r.id,
                    Ok(200, { [id |-> r.id] @@ r.assigned }))
          /\ UNCHANGED categories
     ELSE IF r.id \notin DOMAIN categories
     THEN /\ Answer("putCategory", r.hdr, r.uid, r.id,
                    Err(500, "Failed to update category", "error.message"))
          /\ UNCHANGED categories
     ELSE IF DuplicateKey(r.id, SetPaths(categories[r.id], r.assigned, paths))
     THEN /\ Answer("putCategory", r.hdr, r.uid, r.id, CategoryExists)
          /\ UNCHANGED categories
     ELSE /\ categories' = [categories EXCEPT ![r.id] = SetPaths(@, r.assigned, paths)]
          /\ Answer("putCategory", r.hdr, r.uid, r.id,
                    Ok(200, { [id |-> r.id] @@ r.assigned }))

\* POST /api/tasks up to `await task.save()`: the middleware has found the
\* identity and the document is built
CreateTaskAuth(h, b) ==
  /\ auth(h).kind = "ok"
  /\ Has(b.title) /\ NotEmpty(Trim(Val(b.title)))
  /\ ~(Has(b.status) /\ Val(b.status) \notin Statuses)
  /\ ~(Has(b.priority) /\ Val(b.priority) \notin Priorities)
  /\ FreeSlots # {}
  /\ Suspend([op |-> "postTask", hdr |-> h, uid |-> auth(h).uid,
              doc |-> [user |-> auth(h).uid,
                       title |-> Trim(Val(b.title)),
                       priority |-> IF Has(b.priority) THEN Val(b.priority)
                                    ELSE "medium",
                       status |-> IF Has(b.status) THEN Val(b.status)
                                  ELSE "pending"]])
  /\ UNCHANGED << store, now, last >>

\* POST /api/tasks from the insert of `await task.save()` on
CreateTaskSave(i) ==
  /\ inflight[i].op = "postTask"
  /\ Resume(i)
  /\ CanCreate
  /\ UNCHANGED << users, categories, comments, now >>
  /\ LET r == inflight[i] IN
     /\ tasks' = tasks @@ (NextId :> r.doc)
     /\ kindOf' = Append(kindOf, "task")
     /\ Answer("postTask", r.hdr, r.uid, NextId, Ok(201, { [id |-> NextId] @@ r.doc }))

\* POST /api/comments up to `await Task.findOne({ _id, user })` finding the task
CreateCommentLookup(h, content, task) ==
  /\ auth(h).kind = "ok"
  /\ Has(content) /\ NotEmpty(Trim(Val(content))) /\ Has(task)
  /\ Val(task) \notin {BadId, NotNull}
  /\ FindTask(Val(task), auth(h).uid) # {}
  /\ FreeSlots # {}
  /\ Suspend([op |-> "postComment", hdr |-> h, uid |-> auth(h).uid,
              doc |-> [user |-> auth(h).uid, task |-> Val(task),
                       content |-> Trim(Val(content))]])
  /\ UNCHANGED << store, now, last >>

\* POST /api/comments from the insert of `await comment.save()` on
CreateCommentSave(i) ==
  /\ inflight[i].op = "postComment"
  /\ Resume(i)
  /\ CanCreate
  /\ UNCHANGED << users, tasks, categories, now >>
  /\ LET r == inflight[i] IN
     /\ comments' = comments @@ (NextId :> r.doc)
     /\ kindOf' = Append(kindOf, "comment")
     /\ Answer("postComment", r.hdr, r.uid, r.doc.task,
               Ok(201, { CommentJson(NextId, r.doc) }))

\* a request is served once the previous response is out
Next ==
  \/ Deliver
  \/ last = Idle /\ Tick
  \/ last = Idle /\ \E e \in Emails, p \in Passwords, n \in NameInputs : Signup(e, p, n)
  \/ last = Idle /\ \E e \in Emails, p \in Passwords : Login(e, p)
  \/ last = Idle /\ \E h \in Headers : Profile(h)
  \/ last = Idle /\ \E h \in Headers : \E id \in ParamsFor(h) :
       \E b \in BodiesFor(h, UserBodies, NoBody) : UpdateUser(h, id, b)
  \/ last = Idle /\ \E h \in Headers : \E id \in ParamsFor(h) : DeleteUser(h, id)
  \/ last = Idle /\ OAuthFailure
  \/ last = Idle /\ Logout
  \/ last = Idle /\ \E h \in Headers :
       \E b \in BodiesFor(h, NewTaskBodies, NoTaskBody) : CreateTask(h, b)
  \/ last = Idle /\ \E h \in Headers, q \in TaskQueries : ListTasks(h, q)
  \/ last = Idle /\ \E h \in Headers : \E id \in ParamsFor(h) : GetTask(h, id)
  \/ last = Idle /\ \E h \in Headers : \E id \in ParamsFor(h) :
       \E b \in BodiesFor(h, TaskBodies, NoTaskBody) : UpdateTask(h, id, b)
  \/ last = Idle /\ \E h \in Headers : \E id \in ParamsFor(h) : DeleteTask(h, id)
  \/ last = Idle /\ \E h \in Headers :
       \E b \in BodiesFor(h, CategoryBodies, NoCategoryBody) : CreateCategory(h, b)
  \/ last = Idle /\ \E h \in Headers : ListCategories(h)
  \/ last = Idle /\ \E h \in Headers : \E id \in ParamsFor(h) : GetCategory(h, id)
  \/ last = Idle /\ \E h \in Headers : \E id \in ParamsFor(h) :
       \E b \in BodiesFor(h, CategoryBodies, NoCategoryBody) : UpdateCategory(h, id, b)
  \/ last = Idle /\ \E h \in Headers : \E id \in ParamsFor(h) : DeleteCategory(h, id)
  \/ last = Idle /\ \E h \in Headers :
       \E c \in BodiesFor(h, Opt(NewContentInputs), {}), t \in Opt(ParamsFor(h)) :
         CreateComment(h, c, t)
  \/ last = Idle /\ \E h \in Headers : \E id \in ParamsFor(h) : ListComments(h, id)
  \/ last = Idle /\ \E h \in Headers : \E id \in ParamsFor(h) : GetComment(h, id)
  \/ last = Idle /\ \E h \in Headers : \E id \in ParamsFor(h) :
       \E c \in BodiesFor(h, Opt(ContentInputs), {}) : UpdateComment(h, id, c)
  \/ last = Idle /\ \E h \in Headers : \E id \in ParamsFor(h) : DeleteComment(h, id)

Spec == Init /\ [][Next]_vars

\* the identity routes, the check-then-write handlers among them also in two
\* steps that interleave with every other request
AuthNext ==
  \/ Deliver
  \/ last = Idle /\ Tick
  \/ last = Idle /\ \E e \in Emails, p \in Passwords, n \in NameInputs : Signup(e, p, n)
  \/ last = Idle /\ \E e \in Emails, p \in Passwords : Login(e, p)
  \/ last = Idle /\ \E h \in Headers : Profile(h)
  \/ last = Idle /\ \E h \in Headers : \E id \in ParamsFor(h) :
       \E b \in BodiesFor(h, UserBodies, NoBody) : UpdateUser(h, id, b)
  \/ last = Idle /\ \E h \in Headers : \E id \in ParamsFor(h) : DeleteUser(h, id)
  \/ last = Idle /\ \E o \in Outcomes :
       \E p \in (IF o = "profile" THEN Profiles ELSE {NoProfile}) : OAuthCallback(o, p)
  \/ last = Idle /\ OAuthFailure
  \/ last = Idle /\ AuthError
  \/ last = Idle /\ Logout
  \/ last = Idle /\ \E e \in Emails, p \in Passwords, n \in NameInputs :
       SignupLookup(e, p, n)
  \/ last = Idle /\ \E i \in DOMAIN inflight : SignupSave(i)
  \/ last = Idle /\ \E h \in Headers : \E b \in BodiesFor(h, UserBodies, NoBody) :
       UpdateUserLookup(h, b)
  \/ last = Idle /\ \E i \in DOMAIN inflight : UpdateUserSave(i)
  \/ last = Idle /\ \E p \in Profiles : OAuthLookup(p)
  \/ last = Idle /\ \E i \in DOMAIN inflight : OAuthCreate(i)

AuthSpec == Init /\ [][AuthNext]_vars

\* clients that send more than the API documents: an _id in the body of
\* POST /api/categories, an operator object as the task of POST /api/comments
IdNext ==
  \/ Deliver
  \/ last = Idle /\ Tick
  \/ last = Idle /\ \E e \in Emails, p \in Passwords, n \in NameInputs : Signup(e, p, n)
  \/ last = Idle /\ \E h \in Headers :
       \E b \in BodiesFor(h, CategoryBodies \cup CategoryBodiesWithId(KnownCategoryIds),
                          NoCategoryBody) : CreateCategory(h, b)
  \/ last = Idle /\ \E h \in Headers : ListCategories(h)
  \/ last = Idle /\ \E h \in Headers : \E id \in ParamsFor(h) : GetCategory(h, id)
  \/ last = Idle /\ \E h \in Headers : \E id \in ParamsFor(h) :
       \E b \in BodiesFor(h, CategoryBodies, NoCategoryBody) : UpdateCategory(h, id, b)
  \/ last = Idle /\ \E h \in Headers : \E id \in ParamsFor(h) : DeleteCategory(h, id)
  \/ last = Idle /\ \E h \in Headers :
       \E b \in BodiesFor(h, NewTaskBodies, NoTaskBody) : CreateTask(h, b)
  \/ last = Idle /\ \E h \in Headers : \E id \in ParamsFor(h) : DeleteTask(h, id)
  \/ last = Idle /\ \E h \in Headers :
       \E c \in BodiesFor(h, Opt(NewContentInputs), {}),
          t \in Opt(ParamsFor(h) \cup {NotNull}) : CreateComment(h, c, t)
  \/ last = Idle /\ \E h \in Headers : \E id \in ParamsFor(h) : GetComment(h, id)
  \/ last = Idle /\ \E h \in Headers : \E id \in ParamsFor(h) : DeleteComment(h, id)

IdSpec == Init /\ [][IdNext]_vars

\* the headers the middleware lets pass
Clients == { h \in Headers : auth(h).kind = "ok" }

\* the bodies the racing requests send: a title; a new owner; a name or a new
\* owner
RaceNewTaskBodies == { [NoTaskBody EXCEPT !.title = {<<" ", "a">>}] }
RaceTaskBodies == { b \in TaskBodies : Has(b.user) }
RaceCategoryBodies ==
  { b \in CategoryBodies : Has(b.name) # Has(b.user) /\ b.name \in {{}, {<<"b">>}} }

\* the task, category and comment routes with the handlers that await between
\* a lookup and a write in two steps, which interleave with every other request
RaceNext ==
  \/ Deliver
  \/ last = Idle /\ \E e \in {"a@x.io", "b@x.io"} : Signup(e, "password123", <<"a">>)
  \/ last = Idle /\ \E h \in Clients : DeleteUser(h, auth(h).uid)
  \/ last = Idle /\ \E h \in Clients : \E b \in RaceNewTaskBodies : CreateTaskAuth(h, b)
  \/ last = Idle /\ \E i \in DOMAIN inflight : CreateTaskSave(i)
  \/ last = Idle /\ \E h \in Clients : \E t \in IdParams :
       CreateCommentLookup(h, {<<" ", "a">>}, {t})
  \/ last = Idle /\ \E i \in DOMAIN inflight : CreateCommentSave(i)
  \/ last = Idle /\ \E h \in Clients : \E id \in IdParams :
       \E b \in RaceTaskBodies : UpdateTaskLookup(h, id, b)
  \/ last = Idle /\ \E i \in DOMAIN inflight : UpdateTaskSave(i)
  \/ last = Idle /\ \E h \in Clients : \E id \in IdParams : DeleteTaskLookup(h, id)
  \/ last = Idle /\ \E i \in DOMAIN inflight : DeleteTaskRemove(i)
  \/ last = Idle /\ \E h \in Clients : \E b \in RaceCategoryBodies : CreateCategory(h, b)
  \/ last = Idle /\ \E h \in Clients : \E id \in IdParams :
       \E b \in RaceCategoryBodies : UpdateCategoryLookup(h, id, b)
  \/ last = Idle /\ \E i \in DOMAIN inflight : UpdateCategorySave(i)
  \/ last = Idle /\ \E h \in Clients : \E id \in IdParams : DeleteCategory(h, id)

RaceSpec == Init /\ [][RaceNext]_vars

(***************************************************************************)
(* Properties                                                              *)
(***************************************************************************)
ProtectedOps ==
  { "profile", "putUser", "deleteUser",
    "postTask", "listTasks", "getTask", "putTask", "deleteTask",
    "postCategory", "listCategories", "getCategory", "putCategory", "deleteCategory",
    "postComment", "listComments", "getComment", "putComment", "deleteComment" }

\* the request answered by this step passed the middleware
Accepted(l) == l.op \in ProtectedOps /\ l.uid # NoUser

\* uid owns the task t
OwnsTask(uid, t) == t \in DOMAIN tasks /\ tasks[t].user = uid

\* the step answers a PUT or DELETE of a task that exists and is another's
OthersTask(l) ==
  /\ l.op \in {"putTask", "deleteTask"} /\ Accepted(l)
  /\ l.id \in DOMAIN tasks /\ tasks[l.id].user # l.uid

\* the same for a category
OthersCategory(l) ==
  /\ l.op \in {"putCategory", "deleteCategory"} /\ Accepted(l)
  /\ l.id \in DOMAIN categories /\ categories[l.id].user # l.uid

\* C1 as stated: every PUT or DELETE of a task or category that exists and
\* belongs to another identity is answered 404 and leaves the resource as it was.
C1_NonOwnerAlways404 ==
  [][ /\ OthersTask(last') => last'.res.status = 404 /\ tasks' = tasks
      /\ OthersCategory(last') => last'.res.status = 404 /\ categories' = categories
    ]_vars

\* C1, amended: such a request is answered 404, except that a PUT whose body
\* fails validation is answered 400 'Validation Error' before any lookup; it is
\* never answered 200 or 403, and the resource is left as it was.
C1_NonOwner404OrInvalidBody ==
  [][ /\ OthersTask(last') =>
           /\ \/ last'.res.status = 404
              \/ last'.op = "putTask" /\ last'.res = ValidationError
           /\ tasks' = tasks
      /\ OthersCategory(last') =>
           /\ \/ last'.res.status = 404
              \/ last'.op = "putCategory" /\ last'.res = ValidationError
           /\ categories' = categories
    ]_vars

C1_Witness ==
  /\ OthersTask(last)
  /\ last.op = "putTask"
  /\ last.res.status = 404
  /\ tasks[last.id].user \in DOMAIN users

\* a comment is changed or removed only by a PUT or DELETE of it by its author
CommentsChangeByAuthorOnly ==
  \A c \in DOMAIN comments :
    (c \notin DOMAIN comments' \/ comments'[c] # comments[c]) =>
      /\ last'.op \in {"putComment", "deleteComment"}
      /\ last'.id = c
      /\ last'.uid = comments[c].user

CommentWrite(l) == l.op \in {"putComment", "deleteComment"} /\ Accepted(l)

\* C2 as stated: a PUT or DELETE of a comment is answered 404 when no comment
\* has the id, 403 when the comment is another author's, and only the author's
\* request changes or removes the comment.
C2_CommentWrite404Then403 ==
  [][ /\ CommentsChangeByAuthorOnly
      /\ CommentWrite(last') =>
           IF last'.id \notin DOMAIN comments
           THEN last'.res.status = 404 /\ comments' = comments
           ELSE IF comments[last'.id].user # last'.uid
           THEN last'.res.status = 403 /\ comments' = comments
           ELSE last'.res.status = 200
    ]_vars

\* C2, amended: a PUT with empty content is answered 400 'Validation Error'
\* whatever the id; every other PUT and every DELETE is answered 404 when no
\* comment has the id and 403 when the comment is another author's, the comment
\* unchanged; only the author's request changes or removes the comment.
C2_ValidCommentWrite404Then403 ==
  [][ /\ CommentsChangeByAuthorOnly
      /\ CommentWrite(last') =>
           IF last'.res = ValidationError
           THEN last'.op = "putComment" /\ comments' = comments
           ELSE IF last'.id \notin DOMAIN comments
           THEN last'.res.status = 404 /\ comments' = comments
           ELSE IF comments[last'.id].user # last'.uid
           THEN last'.res.status = 403 /\ comments' = comments
           ELSE last'.res.status = 200
    ]_vars

C2_Witness ==
  /\ last.op = "deleteComment" /\ Accepted(last)
  /\ last.id \in DOMAIN comments
  /\ comments[last.id].user # last.uid
  /\ last.res.status = 403

\* C3 as stated: GET of a comment answers 404 when no comment has the id, 200
\* with the comment to its author, and 403 to anyone else.
C3_AuthorReadsComment ==
  last.op = "getComment" /\ Accepted(last) =>
    IF last.id \notin DOMAIN comments THEN last.res.status = 404
    ELSE IF comments[last.id].user = last.uid
    THEN last.res = Ok(200, { PopulatedView(last.id) })
    ELSE last.res.status = 403

\* C3, amended: GET of a comment answers 404 when no comment has the id; then
\* the comment's task decides, not its author: 200 with the comment when the
\* requester owns the task the comment is on, 403 otherwise (also to the author,
\* once the task is deleted or owned by someone else).
C3_TaskOwnerReadsComment ==
  last.op = "getComment" /\ Accepted(last) =>
    IF last.id \notin DOMAIN comments THEN last.res.status = 404
    ELSE IF OwnsTask(last.uid, comments[last.id].task)
    THEN last.res = Ok(200, { PopulatedView(last.id) })
    ELSE last.res.status = 403

C3_Witness ==
  /\ last.op = "getComment" /\ Accepted(last)
  /\ last.id \in DOMAIN comments
  /\ comments[last.id].user = last.uid
  /\ last.res.status = 403

\* C4: GET /api/comments/task/:taskId answers 200 with the task's comments when
\* the requester owns the task, and 404 without data otherwise; a DELETE of a
\* comment on a task of another owner by someone who is not its author is still
\* answered 403.
C4_TaskCommentsForOwnerOnly ==
  /\ [](last.op = "listComments" /\ Accepted(last) =>
          IF OwnsTask(last.uid, last.id)
          THEN last.res = Ok(200, { PopulatedView(c) :
                                      c \in { x \in DOMAIN comments :
                                                comments[x].task = last.id } })
          ELSE last.res.status = 404 /\ last.res.data = {})
  /\ [][ /\ last'.op = "deleteComment" /\ Accepted(last')
         /\ last'.id \in DOMAIN comments
         /\ comments[last'.id].user # last'.uid
         /\ ~OwnsTask(last'.uid, comments[last'.id].task)
         => last'.res.status = 403 ]_vars

C4_Witness ==
  /\ last.op = "listComments" /\ Accepted(last)
  /\ last.id \in DOMAIN tasks
  /\ tasks[last.id].user # last.uid
  /\ \E c \in DOMAIN comments : comments[c].task = last.id
  /\ last.res.status = 404

C6_NoHeaderRejected ==
  [][ last'.op \in ProtectedOps /\ ~last'.hdr.present =>
        /\ last'.res = Err(401, "Authentication required", "No token provided")
        /\ last'.uid = NoUser
        /\ UNCHANGED store
    ]_vars

C6_Witness ==
  /\ last.op = "deleteTask" /\ ~last.hdr.present
  /\ last.res.status = 401
  /\ tasks # << >>

\* the token of the request names an identity that existed and is deleted
SubjectDeleted(l) ==
  /\ l.hdr.present /\ l.hdr.tok.kind = "jwt" /\ l.hdr.tok.sig
  /\ l.hdr.tok.sub \in EverUsers \ DOMAIN users

\* C7: a protected request carrying a token whose subject has been deleted is
\* answered 401, valid as the token's signature and expiry may be.
C7_DeletedSubjectRejected ==
  [][ last'.op \in ProtectedOps /\ SubjectDeleted(last') =>
        /\ last'.res.status = 401
        /\ last'.uid = NoUser
        /\ UNCHANGED store
    ]_vars

C7_Witness ==
  /\ last.op \in ProtectedOps /\ SubjectDeleted(last)
  /\ now < last.hdr.tok.exp
  /\ last.res.status = 401

\* the token of the request is presented at or after its expiry
Expired(l) == l.hdr.present /\ l.hdr.tok.kind = "jwt" /\ now >= l.hdr.tok.exp

\* C8: a token presented at or after its expiry is answered 401, whatever its
\* signature and subject; a request is accepted only with a token whose
\* signature verifies and whose expiry lies ahead.
C8_ExpiredRejected ==
  [][ /\ last'.op \in ProtectedOps /\ Expired(last') =>
           last'.res.status = 401 /\ last'.uid = NoUser /\ UNCHANGED store
      /\ Accepted(last') =>
           /\ last'.hdr.present /\ last'.hdr.tok.kind = "jwt"
           /\ last'.hdr.tok.sig /\ now < last'.hdr.tok.exp
    ]_vars

C8_Witness ==
  /\ last.op \in ProtectedOps /\ Expired(last)
  /\ last.hdr.tok.sig /\ last.hdr.tok.exp = now
  /\ last.hdr.tok.sub \in DOMAIN users
  /\ last.res.status = 401

\* the token of the request is a string jwt.verify refuses
FailsVerification(l) ==
  /\ l.hdr.present /\ l.hdr.tok.kind # "empty"
  /\ \/ l.hdr.tok.kind # "jwt"
     \/ ~l.hdr.tok.sig
     \/ now >= l.hdr.tok.exp

\* C9: an unparseable token, a signature mismatch and an expired token are all
\* answered with one and the same 401 body.
C9_OneAnswerForBadTokens ==
  [][ last'.op \in ProtectedOps /\ FailsVerification(last') =>
        /\ last'.res = Err(401, "Invalid token", "Token is invalid or expired")
        /\ UNCHANGED store
    ]_vars

C9_Witness ==
  /\ last.op \in ProtectedOps /\ last.hdr.present
  /\ last.hdr.tok.kind = "jwt" /\ ~last.hdr.tok.sig
  /\ now < last.hdr.tok.exp /\ last.hdr.tok.sub \in DOMAIN users
  /\ last.res = Err(401, "Invalid token", "Token is invalid or expired")

\* a signup of a valid payload with an email no identity holds
FreshSignup(e, p, n) ==
  /\ Signup(e, p, n)
  /\ IsEmail(e) /\ PasswordLength(p) >= MinPasswordLength /\ NotEmpty(Trim(n))
  /\ \A u \in DOMAIN users : users[u].email # Lower(e)

\* C10: a signup with a valid payload and a fresh email is answered 201 with a
\* token, creates exactly one identity, and with that token the middleware
\* resolves the new identity, whose email and name GET /api/users/profile sends.
C10_SignupTokenResolvesNewIdentity ==
  [][ last'.op = "signup" =>
        \A e \in Emails, p \in Passwords, n \in NameInputs :
          FreshSignup(e, p, n) =>
            /\ last'.res.status = 201
            /\ \A u \in DOMAIN users : u \in DOMAIN users' /\ users'[u] = users[u]
            /\ \E d \in last'.res.data :
                 LET gate == AuthGate(users', now', Bearer(d.token)) IN
                 /\ DOMAIN users' = DOMAIN users \cup {d.id}
                 /\ d.id \notin DOMAIN users
                 /\ gate.kind = "ok" /\ gate.uid = d.id
                 /\ users'[d.id].email = d.email /\ users'[d.id].name = Trim(n)
                 /\ ProfileOf(users', gate.uid) =
                      Ok(200, { [id |-> d.id, email |-> d.email, name |-> Trim(n),
                                 githubId |-> Absent] })
    ]_vars

C10_Witness ==
  /\ last.op = "signup" /\ last.res.status = 201
  /\ Cardinality(DOMAIN users) = 2
  /\ \E d \in last.res.data :
       /\ auth(Bearer(d.token)).uid = d.id
       /\ ProfileOf(users, d.id).data = { [id |-> d.id, email |-> d.email,
                                           name |-> d.name, githubId |-> Absent] }

\* the signup payload passes the validators
ValidSignup(e, p, n) ==
  IsEmail(e) /\ PasswordLength(p) >= MinPasswordLength /\ NotEmpty(Trim(n))

C12_EmailUnique ==
  \A u, v \in DOMAIN users : u # v => users[u].email # users[v].email

\* a request that found the email free before another one took it
C12_Witness ==
  /\ Cardinality(DOMAIN users) = 2
  /\ last.op = "signup"
  /\ last.res.status = 500
  /\ \E u \in DOMAIN users :
       users[u].githubId # Absent /\ users[u].email = "a@x.io"

\* the identities a login with (e, p) names: the email is theirs and the
\* password matches their credential
Matching(e, p) ==
  { u \in DOMAIN users :
      users[u].email = Lower(e) /\ ComparePassword(users[u].password, p) }

\* C13: a login is answered 200, with a token whose subject is the identity,
\* exactly when an identity holds the email and the password matches its
\* credential; a wrong password and an email no identity holds get one and the
\* same 401 'Invalid credentials'; a login changes nothing in the store.
C13_LoginMatchesCredential ==
  [][ last'.op = "login" =>
        \A e \in Emails, p \in Passwords :
          Login(e, p) =>
            /\ UNCHANGED store
            /\ IF Matching(e, p) # {}
               THEN /\ last'.res.status = 200
                    /\ \E d \in last'.res.data :
                         /\ d.token.sub \in Matching(e, p)
                         /\ d.id = d.token.sub
                         /\ AuthGate(users, now, Bearer(d.token)).uid = d.id
               ELSE /\ last'.res.status # 200
                    /\ IsEmail(e) =>
                         last'.res = Err(401, "Invalid credentials",
                                         "The email or password you entered is incorrect")
    ]_vars

\* a login refused although identities exist, one of them without a password
C13_Witness ==
  /\ last.op = "login"
  /\ last.res.status = 401
  /\ \E u \in DOMAIN users : users[u].password = NoPassword
  /\ \E u \in DOMAIN users : users[u].password # NoPassword

\* the validators of PUT /api/tasks/:id refuse the body
TaskBodyRefused(b) ==
  \/ Has(b.title) /\ Trim(Val(b.title)) = << >>
  \/ Has(b.status) /\ Val(b.status) \notin {"pending", "in-progress", "completed"}
  \/ Has(b.priority) /\ Val(b.priority) \notin {"low", "medium", "high"}

\* the validators of PUT /api/categories/:id refuse the body
CategoryBodyRefused(b) == Has(b.name) /\ Trim(Val(b.name)) = << >>

\* the step answers a request on a well-formed id of a task that is not the
\* requester's: no task has the id, or another identity owns it
NotOwnTask(l) ==
  /\ l.op \in {"getTask", "putTask", "deleteTask"} /\ Accepted(l)
  /\ l.id # BadId /\ ~OwnsTask(l.uid, l.id)

NotOwnCategory(l) ==
  /\ l.op \in {"getCategory", "putCategory", "deleteCategory"} /\ Accepted(l)
  /\ l.id # BadId
  /\ ~(l.id \in DOMAIN categories /\ categories[l.id].user = l.uid)

\* C14: for GET, PUT and DELETE of a task or category by a well-formed id, the
\* answer to a requester who does not own the resource is fixed by the request
\* alone: the same status and body whether no resource has the id or another
\* identity owns it.
C14_AbsentAndForeignAlike ==
  [][ /\ NotOwnTask(last') =>
           IF last'.op = "putTask"
           THEN \A b \in TaskBodies :
                  UpdateTask(last'.hdr, last'.id, b) =>
                    last'.res = IF TaskBodyRefused(b) THEN ValidationError
                                ELSE TaskNotFound
           ELSE last'.res = TaskNotFound
      /\ NotOwnCategory(last') =>
           IF last'.op = "putCategory"
           THEN \A b \in CategoryBodies :
                  UpdateCategory(last'.hdr, last'.id, b) =>
                    last'.res = IF CategoryBodyRefused(b) THEN ValidationError
                                ELSE CategoryNotFound
           ELSE last'.res = CategoryNotFound
    ]_vars

\* a GET of another identity's task, answered as a GET of no task is
C14_Witness ==
  /\ last.op = "getTask" /\ Accepted(last)
  /\ last.id \in DOMAIN tasks
  /\ tasks[last.id].user # last.uid
  /\ last.res = TaskNotFound

\* the JSON of the document id of a collection: its fields and its id
Body(coll, id) == [id |-> id] @@ coll[id]

\* the body a create answers with for the comment stored under id: its
\* fields, `user` the author's id
CreatedComment(id) == [Body(comments, id) EXCEPT !.user = [oid |-> @]]

\* a successful create answers with exactly the document it stored, under an
\* id that is new
CreateReturnsStored ==
  /\ last'.op = "postTask" /\ last'.res.status = 201 =>
       \E d \in last'.res.data :
         d.id \notin DOMAIN tasks /\ last'.res.data = { Body(tasks', d.id) }
  /\ last'.op = "postCategory" /\ last'.res.status = 201 =>
       \E d \in last'.res.data :
         d.id \notin DOMAIN categories /\ last'.res.data = { Body(categories', d.id) }
  /\ last'.op = "postComment" /\ last'.res.status = 201 =>
       \E d \in last'.res.data :
         d.id \notin DOMAIN comments /\ last'.res.data = { CreatedComment(d.id)' }

\* a GET by id by the owner answers 200 with the stored task or category
GetReturnsStored ==
  /\ last'.op = "getTask" /\ Accepted(last') /\ OwnsTask(last'.uid, last'.id) =>
       last'.res = Ok(200, { Body(tasks, last'.id) })
  /\ /\ last'.op = "getCategory" /\ Accepted(last')
     /\ last'.id \in DOMAIN categories /\ categories[last'.id].user = last'.uid
     => last'.res = Ok(200, { Body(categories, last'.id) })

\* the GET of a comment is by its author, who owns the task it is on, as right
\* after the create
GetOwnComment(l) ==
  /\ l.op = "getComment" /\ Accepted(l)
  /\ l.id \in DOMAIN comments
  /\ comments[l.id].user = l.uid
  /\ OwnsTask(l.uid, comments[l.id].task)

\* C15 as stated: a create answers with the stored resource and a GET by id by
\* the owner answers 200 with the stored resource, for tasks, categories and
\* comments alike, so the GET that follows a create returns the create's body.
C15_RoundTripEqual ==
  [][ /\ CreateReturnsStored
      /\ GetReturnsStored
      /\ GetOwnComment(last') => last'.res = Ok(200, { CreatedComment(last'.id) })
    ]_vars

\* C15, amended: for tasks and categories the GET that follows a create
\* returns 200 with a body equal to the create's; for comments it returns 200
\* with the create's body in which `user`, the author's id, is replaced by the
\* author's record { id, name, email }.
C15_RoundTripPopulatesAuthor ==
  [][ /\ CreateReturnsStored
      /\ GetReturnsStored
      /\ GetOwnComment(last') =>
           last'.res =
             Ok(200, { [CreatedComment(last'.id) EXCEPT !.user =
                          [oid |-> last'.uid, name |-> users[last'.uid].name,
                           email |-> users[last'.uid].email]] })
    ]_vars

C15_Witness ==
  /\ GetOwnComment(last)
  /\ last.res.status = 200
  /\ \E d \in last.res.data : d.content = <<"a">> /\ d.user.oid = last.uid

\* the body d carries a token for the identity it names
TokenFor(d) ==
  /\ d.token.sub = d.id
  /\ AuthGate(users', now', Bearer(d.token)).uid = d.id

\* no two identities have the same external id
GithubIdUnique ==
  \A u, v \in DOMAIN users :
    u # v /\ users[u].githubId # Absent => users[u].githubId # users[v].githubId

\* C16: a callback for external id G that succeeds creates exactly one
\* identity when none has G (email from the profile or the placeholder, the
\* profile's name, no password) and reuses, unmodified, the one that has G; it
\* answers with a token for that identity. A callback for a G that an identity
\* has always succeeds. At most one identity has G, callbacks running
\* concurrently included.
C16_OneIdentityPerExternalId ==
  /\ []GithubIdUnique
  /\ [][ last'.op = "oauthCallback" =>
           /\ \A p \in Profiles :
                OAuthCallback("profile", p) /\ FindUserByGithubId(users, p.id) # {} =>
                  /\ last'.res.status = 200
                  /\ users' = users
                  /\ \E d \in last'.res.data :
                       d.id \in FindUserByGithubId(users, p.id) /\ TokenFor(d)
           /\ last'.res.status = 200 =>
                \E d \in last'.res.data :
                  /\ TokenFor(d)
                  /\ d.githubId \in GithubIds
                  /\ IF FindUserByGithubId(users, d.githubId) = {}
                     THEN /\ d.id \notin DOMAIN users
                          /\ DOMAIN users' = DOMAIN users \cup {d.id}
                          /\ \A u \in DOMAIN users : users'[u] = users[u]
                          /\ users'[d.id].password = NoPassword
                          /\ \E p \in Profiles :
                               p.id = d.githubId /\ users'[d.id] = ProfileDoc(p)
                     ELSE /\ users' = users
                          /\ d.id \in FindUserByGithubId(users, d.githubId)
         ]_vars

\* of two callbacks for the same external id that both found no identity, one
\* created it and the other one failed
C16_Witness ==
  /\ last.op = "oauthCallback"
  /\ last.res.error = "E11000 duplicate key error"
  /\ \E u \in DOMAIN users : users[u].githubId = "gh1"

\* C17: a callback that fails (the exchange with GitHub fails, or the strategy
\* reports an error) is answered 401, directly or through the redirect to the
\* failure route, carries no token, and creates or changes no identity.
C17_FailedCallbackIs401 ==
  [][ last'.op = "oauthCallback" /\ last'.res.status # 200 =>
        /\ last'.res.status = 401 \/ last'.res = FailureRedirect
        /\ last'.res.data = {}
        /\ users' = users
    ]_vars

\* a token with a good signature for identity u that expires at e
SignedFor(u, e) == [kind |-> "jwt", sub |-> u, exp |-> e, sig |-> TRUE]

\* the step answers the DELETE by which identity u removes its account
DeletesAccount(l, u) ==
  l.op = "deleteUser" /\ l.uid = u /\ l.id = u /\ l.res.status = 200

\* C18: a token the middleware accepts stays accepted, for the same identity,
\* across every step that leaves it unexpired and is not the deletion of its
\* subject by the subject: logouts, logins, password and profile updates and
\* the requests of others revoke nothing.
C18_TokensNeverRevoked ==
  [][ \A u \in DOMAIN users : \A e \in (now + 1)..(now + TokenTTL) :
        /\ AuthGate(users, now, Bearer(SignedFor(u, e))).kind = "ok"
        /\ now' < e
        /\ ~DeletesAccount(last', u)
        => /\ AuthGate(users', now', Bearer(SignedFor(u, e))).kind = "ok"
           /\ AuthGate(users', now', Bearer(SignedFor(u, e))).uid = u
    ]_vars

\* the token that carried a profile update is accepted after it
C18_Witness ==
  /\ last.op = "putUser" /\ last.res.status = 200
  /\ last.hdr.present
  /\ AuthGate(users, now, last.hdr).kind = "ok"
  /\ AuthGate(users, now, last.hdr).uid = last.uid
  /\ Cardinality(DOMAIN users) = 2

\* C19: the DELETE of an account by its own identity removes that identity and
\* nothing else: the other identities and every task, category and comment,
\* the deleted identity's among them, stay as they were.
C19_DeleteUserLeavesResources ==
  [][ last'.op = "deleteUser" /\ Accepted(last') /\ last'.id = last'.uid =>
        /\ last'.res.status = 200
        /\ DOMAIN users' = DOMAIN users \ {last'.uid}
        /\ \A u \in DOMAIN users' : users'[u] = users[u]
        /\ tasks' = tasks /\ categories' = categories /\ comments' = comments
    ]_vars

\* an account is gone and a task and a comment of it are still there
C19_Witness ==
  /\ last.op = "deleteUser" /\ last.res.status = 200
  /\ last.uid \notin DOMAIN users
  /\ \E t \in DOMAIN tasks : tasks[t].user = last.uid
  /\ \E c \in DOMAIN comments : comments[c].user = last.uid

\* no two categories of one owner have the same name
CategoryNamesUnique ==
  \A c, d \in DOMAIN categories :
    c # d /\ categories[c].user = categories[d].user =>
      categories[c].name # categories[d].name

\* a category other than id has this owner and this name
PairHeld(id, owner, name) ==
  \E c \in DOMAIN categories \ {id} :
    categories[c].user = owner /\ categories[c].name = name

\* C20: no two categories of one owner ever have the same name. A create or
\* an update of one's own category that would give an owner two categories of
\* one name is answered 400 'Category already exists' and changes nothing; a
\* name that only categories of other owners have is accepted.
C20_CategoryNameUniquePerOwner ==
  /\ []CategoryNamesUnique
  /\ [][ /\ last'.op = "postCategory" /\ Accepted(last') =>
              \A b \in CategoryBodies :
                CreateCategory(last'.hdr, b) /\ Has(b.name)
                  /\ Trim(Val(b.name)) # << >> =>
                  IF PairHeld(BadId, last'.uid, Trim(Val(b.name)))
                  THEN last'.res = CategoryExists /\ categories' = categories
                  ELSE last'.res.status = 201
         /\ /\ last'.op = "putCategory" /\ Accepted(last')
            /\ last'.id \in DOMAIN categories
            /\ categories[last'.id].user = last'.uid
            => \A b \in CategoryBodies :
                 UpdateCategory(last'.hdr, last'.id, b) /\ ~CategoryBodyRefused(b) =>
                   IF PairHeld(last'.id,
                               IF Has(b.user) THEN Val(b.user) ELSE last'.uid,
                               IF Has(b.name) THEN Trim(Val(b.name))
                               ELSE categories[last'.id].name)
                   THEN last'.res = CategoryExists /\ categories' = categories
                   ELSE last'.res.status = 200
       ]_vars

\* a category was created under a name a category of another owner has
C20_Witness ==
  /\ last.op = "postCategory" /\ last.res.status = 201
  /\ \E c, d \in DOMAIN categories :
       /\ categories[c].name = categories[d].name
       /\ categories[c].user # categories[d].user
       /\ categories[c].user = last.uid

\* the identity the token of the request answered by this step names
Requester(l) == AuthGate(users, now, l.hdr).uid

\* the documents this step adds to a collection
Added(before, after) == DOMAIN after \ DOMAIN before

\* C21: whenever POST adds a task, a category or a comment, the owner of the
\* new document is the identity the request's token resolves to, whatever the
\* body carries (a `user` naming another identity included).
C21_CreatedOwnerIsRequester ==
  [][ /\ \A t \in Added(tasks, tasks') :
           /\ last'.op = "postTask" /\ Requester(last') # NoUser
           /\ tasks'[t].user = Requester(last')
      /\ \A c \in Added(categories, categories') :
           /\ last'.op = "postCategory" /\ Requester(last') # NoUser
           /\ categories'[c].user = Requester(last')
      /\ \A c \in Added(comments, comments') :
           /\ last'.op = "postComment" /\ Requester(last') # NoUser
           /\ comments'[c].user = Requester(last')
    ]_vars

\* a task was created while another identity exists that a body can name
C21_Witness ==
  /\ last.op = "postTask" /\ last.res.status = 201
  /\ last.id \in DOMAIN tasks /\ tasks[last.id].user = last.uid
  /\ \E v \in DOMAIN users : v # last.uid

\* what GET /api/tasks with query q owes the identity uid
OwnTasks(uid, q) ==
  { [id |-> t] @@ tasks[t] :
      t \in { x \in DOMAIN tasks :
                /\ tasks[x].user = uid
                /\ Has(q.status) => tasks[x].status = Val(q.status)
                /\ Has(q.priority) => tasks[x].priority = Val(q.priority) } }

\* what GET /api/categories owes the identity uid
OwnCategories(uid) ==
  { [id |-> c] @@ categories[c] :
      c \in { x \in DOMAIN categories : categories[x].user = uid } }

\* C22: GET /api/tasks answers an authenticated requester with exactly the
\* tasks they own that match the status and the priority of the query, and
\* GET /api/categories with exactly the categories they own; nothing owned by
\* another identity is in either list.
C22_ListsExactlyOwn ==
  [][ /\ last'.op = "listTasks" /\ Accepted(last') =>
           /\ \A q \in TaskQueries :
                ListTasks(last'.hdr, q) =>
                  last'.res = Ok(200, OwnTasks(Requester(last'), q))
           /\ \A d \in last'.res.data : d.user = Requester(last')
      /\ last'.op = "listCategories" /\ Accepted(last') =>
           /\ last'.res = Ok(200, OwnCategories(Requester(last')))
           /\ \A d \in last'.res.data : d.user = Requester(last')
    ]_vars

\* a list of tasks was returned while another identity owns a task too
C22_Witness ==
  /\ last.op = "listTasks" /\ last.res.status = 200
  /\ last.res.data # {}
  /\ \E t \in DOMAIN tasks : tasks[t].user # last.uid

\* ids once handed out for a collection that no document of it has any more
Gone(kind, coll) ==
  { i \in 1..Len(kindOf) : kindOf[i] = kind /\ i \notin DOMAIN coll }

\* a get, an update with a body that passes validation, or a delete, by id
ById(l, ops) == l.op \in ops /\ Accepted(l) /\ l.res # ValidationError

\* C23: a DELETE of an existing task or category by its owner, or of a comment
\* by its author, answers 200 with the success message in `error` and removes
\* the document; from then on the id names nothing: no later step brings a
\* document back under it, and every later get, update or delete by that id
\* answers 404.
C23_DeletedStaysAbsent ==
  [][ /\ /\ last'.op = "deleteTask" /\ Accepted(last')
         /\ FindTask(last'.id, last'.uid) # {}
         => /\ last'.res = Res(200, "Task deleted successfully", Absent, {})
            /\ last'.id \notin DOMAIN tasks'
      /\ /\ last'.op = "deleteCategory" /\ Accepted(last')
         /\ FindCategory(last'.id, last'.uid) # {}
         => /\ last'.res = Res(200, "Category deleted successfully", Absent, {})
            /\ last'.id \notin DOMAIN categories'
      /\ /\ last'.op = "deleteComment" /\ Accepted(last')
         /\ last'.id \in DOMAIN comments /\ comments[last'.id].user = last'.uid
         => /\ last'.res = Res(200, "Comment deleted successfully", Absent, {})
            /\ last'.id \notin DOMAIN comments'
      /\ Gone("task", tasks) \subseteq Gone("task", tasks')
      /\ Gone("category", categories) \subseteq Gone("category", categories')
      /\ Gone("comment", comments) \subseteq Gone("comment", comments')
      /\ /\ ById(last', {"getTask", "putTask", "deleteTask"})
         /\ last'.id \in Gone("task", tasks)
         => last'.res.status = 404
      /\ /\ ById(last', {"getCategory", "putCategory", "deleteCategory"})
         /\ last'.id \in Gone("category", categories)
         => last'.res.status = 404
      /\ /\ ById(last', {"getComment", "putComment", "deleteComment"})
         /\ last'.id \in Gone("comment", comments)
         => last'.res.status = 404
    ]_vars

\* C24: every response with a status of 400 or above, from a route, from the
\* auth middleware or from the application's error handler, has a body with
\* both an `error` and a `details` field.
C24_ErrorsCarryErrorAndDetails ==
  last.res.status >= 400 =>
    last.res.error # Absent /\ last.res.details # Absent

\* what a client can send for an id that is no well-formed id
MalformedIds == {BadId, NotNull}

\* the routes that take the id of a resource or of a task
IdOps ==
  { "getTask", "putTask", "deleteTask",
    "getCategory", "putCategory", "deleteCategory",
    "getComment", "putComment", "deleteComment",
    "postComment", "listComments" }

\* C25: an authenticated get, update or delete by id on tasks, categories and
\* comments, a POST /api/comments and a GET /api/comments/task/:taskId whose
\* id is not a well-formed id is answered 404, never 500, and changes nothing
\* in the store (a body that fails validation aside, which is answered 400).
C25_MalformedIdIs404 ==
  [][ /\ last'.op \in IdOps /\ Accepted(last')
      /\ last'.res # ValidationError
      /\ last'.id \in MalformedIds
      => last'.res.status = 404 /\ store' = store
    ]_vars

\* the validators of PUT /api/users/:id refuse the body
UserBodyRefused(b) ==
  \/ Has(b.email) /\ ~IsEmail(Val(b.email))
  \/ Has(b.password) /\ PasswordLength(Val(b.password)) < MinPasswordLength
  \/ Has(b.name) /\ Trim(Val(b.name)) = << >>

\* content is required by POST and by PUT /api/comments
ContentRefused(c) == ~Has(c) \/ Trim(Val(c)) = << >>

\* the step answers 400 with an error and details and writes nothing
Refuses400 ==
  /\ last'.res.status = 400
  /\ last'.res.error # Absent /\ last'.res.details # Absent
  /\ store' = store

\* C26: a create or an update whose body fails the validators of its route
\* (a missing or empty task title, category name or comment content, a
\* priority or status outside the allowed set, an invalid email, a password
\* shorter than 6, an empty name) is answered 400 with an error and details
\* and leaves every stored resource and identity as it was: a step that is
\* not such a refusal is the step of no request with such a body.
C26_InvalidBodyIs400 ==
  [][ \/ Refuses400
      \/ /\ last'.op = "signup" =>
              \A e \in Emails, p \in Passwords, n \in NameInputs :
                ~ValidSignup(e, p, n) => ~Signup(e, p, n)
         /\ last'.op = "putUser" /\ Accepted(last') =>
              \A b \in UserBodies :
                UserBodyRefused(b) => ~UpdateUser(last'.hdr, last'.id, b)
         /\ last'.op = "postTask" /\ Accepted(last') =>
              \A b \in NewTaskBodies :
                ~Has(b.title) \/ TaskBodyRefused(b) => ~CreateTask(last'.hdr, b)
         /\ last'.op = "putTask" /\ Accepted(last') =>
              \A b \in TaskBodies :
                TaskBodyRefused(b) => ~UpdateTask(last'.hdr, last'.id, b)
         /\ last'.op = "postCategory" /\ Accepted(last') =>
              \A b \in CategoryBodies :
                ~Has(b.name) \/ CategoryBodyRefused(b) => ~CreateCategory(last'.hdr, b)
         /\ last'.op = "putCategory" /\ Accepted(last') =>
              \A b \in CategoryBodies :
                CategoryBodyRefused(b) => ~UpdateCategory(last'.hdr, last'.id, b)
         /\ last'.op = "postComment" /\ Accepted(last') =>
              \A c \in Opt(NewContentInputs), t \in Opt(IdParams) :
                ContentRefused(c) => ~CreateComment(last'.hdr, c, t)
         /\ last'.op = "putComment" /\ Accepted(last') =>
              \A c \in Opt(ContentInputs) :
                ContentRefused(c) => ~UpdateComment(last'.hdr, last'.id, c)
    ]_vars

\* an update of one's own task with an invalid body was refused
C26_Witness ==
  /\ last.op = "putTask" /\ last.res = ValidationError
  /\ last.id \in DOMAIN tasks /\ tasks[last.id].user = last.uid

\* the handler suspended in slot i writes in this step
Writes(i, op) == inflight[i].op = op /\ inflight'[i] = NoRequest

\* C27: the lookup and the write of an update or a delete of a task or a
\* category are one atomic step: when the handler writes, the document is
\* the one its lookup found, neither deleted nor changed nor reassigned by a
\* step of another request in between.
C27_LookupAndWriteAtomic ==
  [][ \A i \in DOMAIN inflight :
        /\ Writes(i, "putTask") \/ Writes(i, "deleteTask") =>
             /\ inflight[i].id \in DOMAIN tasks
             /\ tasks[inflight[i].id] = inflight[i].found
        /\ Writes(i, "putCategory") =>
             /\ inflight[i].id \in DOMAIN categories
             /\ categories[inflight[i].id] = inflight[i].found
    ]_vars

\* the write of an update or a delete changes a task or category only while
\* the identity the lookup was made for still owns it
NoWriteAfterReassignment ==
  [][ \A i \in DOMAIN inflight :
        /\ (Writes(i, "putTask") \/ Writes(i, "deleteTask")) /\ tasks' # tasks =>
             tasks[inflight[i].id].user = inflight[i].uid
        /\ Writes(i, "putCategory") /\ categories' # categories =>
             categories[inflight[i].id].user = inflight[i].uid
    ]_vars

\* C28: when a create request persists a task, a category or a comment, the
\* owner of the new document is an identity of the credential store, and the
\* task of a new comment is a stored task that the comment's author owns,
\* whatever other requests (account deletion, task deletion, task update) ran
\* while the create was being served.
C28_ReferencesHoldAtCreation ==
  [][ /\ \A t \in Added(tasks, tasks') : tasks'[t].user \in DOMAIN users'
      /\ \A c \in Added(categories, categories') :
           categories'[c].user \in DOMAIN users'
      /\ \A c \in Added(comments, comments') :
           /\ comments'[c].user \in DOMAIN users'
           /\ comments'[c].task \in DOMAIN tasks'
           /\ tasks'[comments'[c].task].user = comments'[c].user
    ]_vars

\* the resources of a collection that the identity v owns
OwnedBy(coll, v) == { r \in DOMAIN coll : coll[r].user = v }

\* C29: the owner of a task or a category never changes after creation, so
\* the set of resources an identity owns changes only in a step of a request
\* authenticated as that identity: no step, a PUT with a `user` field in its
\* body included, alters the owner of a stored task or category.
C29_OwnerNeverChanges ==
  [][ /\ \A t \in DOMAIN tasks \cap DOMAIN tasks' : tasks'[t].user = tasks[t].user
      /\ \A c \in DOMAIN categories \cap DOMAIN categories' :
           categories'[c].user = categories[c].user
      /\ \A v \in EverUsers :
           \/ OwnedBy(tasks', v) = OwnedBy(tasks, v)
              /\ OwnedBy(categories', v) = OwnedBy(categories, v)
           \/ Requester(last') = v
    ]_vars

\* a PUT or DELETE on /api/users/:id by an authenticated identity, with :id
\* not its own identifier
OthersUser(l) ==
  /\ l.op \in {"putUser", "deleteUser"}
  /\ Accepted(l)
  /\ l.id # l.uid

\* an identity of the store is changed or removed only by its own PUT or DELETE
IdentityChangesBySelfOnly ==
  \A v \in DOMAIN users :
    (v \notin DOMAIN users' \/ users'[v] # users[v]) =>
      /\ last'.op \in {"putUser", "deleteUser"}
      /\ last'.uid = v
      /\ last'.id = v

\* C30: a PUT or DELETE on /api/users/:id whose :id is not the requester's own
\* identifier is answered 403 and no identity of the store changes; an identity
\* is modified or deleted only by a request authenticated as that identity.
C30_OthersUserAlways403 ==
  [][ /\ OthersUser(last') => last'.res.status = 403 /\ users' = users
      /\ IdentityChangesBySelfOnly
    ]_vars

\* C30, amended: such a request is answered 403, except that a PUT whose body
\* fails validation is answered 400 'Validation Error' before the identifiers
\* are compared; it is never answered 200, and no identity of the store
\* changes. An identity is modified or deleted only by its own request.
C30_Others403OrInvalidBody ==
  [][ /\ OthersUser(last') =>
           /\ \/ last'.res.status = 403
              \/ last'.op = "putUser" /\ last'.res = ValidationError
           /\ users' = users
      /\ IdentityChangesBySelfOnly
    ]_vars

\* a DELETE naming another identity of the store was answered 403
C30_Witness ==
  /\ OthersUser(last)
  /\ last.op = "deleteUser"
  /\ last.res.status = 403
  /\ last.id \in DOMAIN users

====
